---- MODULE Spec2Model ----
(***************************************************************************)
(* A model of the video editing and repurposing pipeline of InstaAI        *)
(* Studio: the clip selection of the repurposing engine                    *)
(* (video_processor/repurposer.py), the editing primitives                 *)
(* (video_processor/video_editor.py) and the operation executor            *)
(* (nl_parser/command_parser.py).                                          *)
(*                                                                         *)
(* Times are whole seconds and frame sizes whole pixels.  Each component   *)
(* has its own specification over the shared variables; the variables of   *)
(* the other components stay at their idle values.                         *)
(***************************************************************************)
EXTENDS Integers, Sequences, FiniteSets, TLC

VARIABLES
    \* ---- VideoRepurposer._select_clips_for_duration ----
    clips,             \* the caller's list of clip-data dicts (shuffled and mutated in place)
    target_duration,   \* the target total duration
    selected,          \* the list being built
    current_duration,  \* the running total
    sel_i,             \* position of the for loop in clips (1-based; the next clip to look at)
    sel_pc,            \* "idle" | "call" | "loop" | "returned"
    sel_pos,           \* positions (in the shuffled list) of the clips appended to selected
    sel_pool,          \* the clip-data dicts as they were when the call was made
    \* ---- direct calls of the VideoEditor primitives ----
    ed_pc,             \* "idle" | "call" | "returned" | "raised"
    ed_call,           \* the call: the primitive's name and its arguments
    ed_clips,          \* the caller's clip list handed to concatenate_clips
    ed_result,         \* what the call returned (a clip, a segment list) or the error it raised
    \* ---- CommandExecutor.execute_operations ----
    operations,        \* the operation list
    input_clip,        \* the clip handed to execute_operations
    current_clip,      \* the accumulator
    op_i,              \* the index of the operation the loop is at (1-based)
    exec_pc,           \* "idle" | "call" | "loop" | "returned" | "raised"
    exec_err,          \* the exception that left execute_operations, "" if none
    context,           \* the execution context (music_dir; "" when it has none)
    dispatched,        \* the indices handed to _execute_single_operation, in order
    calls,             \* per dispatch: the clip handed in and what came back
    \* ---- VideoEditor.export_video ----
    exp_pc,            \* "idle" | "call" | "write" | "finally" | "returned" | "raised"
    exp_clip,          \* the clip handed to export_video
    exp_written,       \* seconds of the clip encoded into the destination so far
    exp_file,          \* the destination file: "absent" | "old" | "partial" | "complete"
    exp_closed,        \* whether clip.close() has been called
    exp_err,           \* the exception leaving export_video, "" if none
    \* ---- VideoRepurposer.create_reel_from_plan and the task that calls it ----
    job_pc,            \* where the job is: "idle" | "call" | "download" | "extract" | "select" |
                       \* "assemble" | "overlay" | "export_call" | "export" | "returned" |
                       \* "raised" | "task_returned"
    reel_plan,         \* the plan: its duration (parsed, seconds) and whether it has a hook
    source_posts,      \* the posts handed to the job
    download_tasks,    \* the posts download_batch sets out to download
    attempted,         \* media ids whose download was awaited, in order
    downloaded,        \* (media_id, filepath) of the downloads that succeeded
    all_clips_data,    \* the clip-data dicts extracted from the downloads
    video_clips,       \* the loaded, trimmed and resized clips
    final_video,       \* the assembled clip
    job_k,             \* position of the loop the job is in (1-based)
    job_ret,           \* what create_reel_from_plan returned: "pending" | "None" | "path"
    job_log,           \* the warning or error logged with an early return
    job_caught,        \* the exception caught by line 281, "" if none
    job_exc,           \* the exception leaving create_reel_from_plan, "" if none
    task_ret,          \* the dict create_video_from_reel_plan returned
    \* ---- InstaAIStudio.create_content ----
    cnt_pc,            \* "idle" | "call" | "commands" | "executing" | "export_call" | "export" |
                       \* "returned" | "raised"
    input_files,       \* the input files (each: what it is and how long it lasts)
    commands,          \* the natural-language commands
    cnt_type,          \* the content type asked for
    cnt_clip,          \* the clip being worked on
    cnt_k,             \* position of the command loop (1-based)
    cnt_ret,           \* what create_content returned: "pending" | "path"
    cnt_err,           \* the exception leaving create_content, "" if none
    \* ---- concurrent repurposing jobs on one machine: workspaces, download cache, outputs ----
    ws_job,            \* per job: where it is, the download_media call it is in, what it returned
    ws_cache,          \* per media id: the cache file (absent, being written, complete) and its writers
    ws_clock,          \* the wall clock, in seconds
    ws_written,        \* per job: the paths it has opened for writing
    ws_seen,           \* what has happened so far: downloads per media id, overwrites, ...
    handles,           \* the clip handles opened by the job, each [by, file, closed]
    pub_pc,            \* where the publish call is: "idle" | "call" | "create" | "poll" | "ready" |
                       \*   "publish" | "returned" | "raised"
    pub_kind,          \* "photo" | "reel" | "carousel"
    pub_wait,          \* wait_for_completion
    pub_urls,          \* how many media urls the carousel was given (1 otherwise)
    pub_containers,    \* the containers created, each [polls, reported]
    pub_i,             \* the container the polling loop is at
    pub_attempt,       \* iterations the current polling loop has made
    published,         \* what publish_container was called with: [id, reported], or NoPublish
    pub_err,           \* the exception raised, "" if none
    sch_status,        \* PostSchedule.status of the post in the database
    sch_due,           \* scheduled_time <= now
    sch_active,        \* the post's account exists and is active
    sch_queue,         \* publish_scheduled_post tasks queued for the post and not yet taken
    sch_worker,        \* per worker: where its publish_scheduled_post task is
    sch_ticks,         \* process_pending_posts runs so far
    sch_publishes,     \* times the post was published to the platform
    sch_cancel         \* the cancel request: [pc, publishes], publishes as counted when it succeeded

sel_vars  == <<clips, target_duration, selected, current_duration, sel_i, sel_pc, sel_pos, sel_pool>>
ed_vars   == <<ed_pc, ed_call, ed_clips, ed_result>>
exec_vars == <<operations, input_clip, current_clip, op_i, exec_pc, exec_err, context, dispatched,
               calls>>
exp_vars  == <<exp_pc, exp_clip, exp_written, exp_file, exp_closed, exp_err>>
job_vars  == <<job_pc, reel_plan, source_posts, download_tasks, attempted, downloaded,
               all_clips_data, video_clips, final_video, job_k, job_ret, job_log, job_caught,
               job_exc, task_ret>>
cnt_vars  == <<cnt_pc, input_files, commands, cnt_type, cnt_clip, cnt_k, cnt_ret, cnt_err>>
ws_vars   == <<ws_job, ws_cache, ws_clock, ws_written, ws_seen>>
hd_vars   == <<handles>>
pub_vars  == <<pub_pc, pub_kind, pub_wait, pub_urls, pub_containers, pub_i, pub_attempt,
               published, pub_err>>
sch_vars  == <<sch_status, sch_due, sch_active, sch_queue, sch_worker, sch_ticks, sch_publishes,
               sch_cancel>>
vars      == <<sel_vars, ed_vars, exec_vars, exp_vars, job_vars, cnt_vars, ws_vars, hd_vars, pub_vars, sch_vars>>

\* What an action of one component leaves alone: the other components.
sel_rest  == <<ed_vars, exec_vars, exp_vars, job_vars, cnt_vars, ws_vars, hd_vars, pub_vars, sch_vars>>
ed_rest   == <<sel_vars, exec_vars, exp_vars, job_vars, cnt_vars, ws_vars, hd_vars, pub_vars, sch_vars>>
exec_rest == <<sel_vars, ed_vars, exp_vars, job_vars, cnt_vars, ws_vars, hd_vars, pub_vars, sch_vars>>
exp_rest  == <<sel_vars, ed_vars, exec_vars, job_vars, cnt_vars, ws_vars, hd_vars, pub_vars, sch_vars>>
job_rest  == <<sel_vars, ed_vars, exec_vars, exp_vars, cnt_vars, ws_vars, hd_vars, pub_vars, sch_vars>>
cnt_rest  == <<sel_vars, ed_vars, exec_vars, exp_vars, job_vars, ws_vars, hd_vars, pub_vars, sch_vars>>
ws_rest   == <<sel_vars, ed_vars, exec_vars, exp_vars, job_vars, cnt_vars, hd_vars, pub_vars, sch_vars>>
hd_rest   == <<sel_vars, ed_vars, exec_vars, exp_vars, job_vars, cnt_vars, ws_vars, pub_vars, sch_vars>>
pub_rest  == <<sel_vars, ed_vars, exec_vars, exp_vars, job_vars, cnt_vars, ws_vars, hd_vars, sch_vars>>
sch_rest  == <<sel_vars, ed_vars, exec_vars, exp_vars, job_vars, cnt_vars, ws_vars, hd_vars, pub_vars>>

(***************************************************************************)
(* Bounds of the model.                                                    *)
(***************************************************************************)
MaxClips == 3      \* candidate clips in a pool
MaxDur == 4        \* candidate durations 1..MaxDur
MaxTarget == 8     \* target durations 1..MaxTarget
MaxStart == 1      \* a candidate starts at 0 or at MaxStart in its source

(***************************************************************************)
(* Helpers on sequences.                                                   *)
(***************************************************************************)
RECURSIVE SumSeq(_)
SumSeq(s) == IF s = <<>> THEN 0 ELSE Head(s) + SumSeq(Tail(s))

Durations(s) == [i \in 1..Len(s) |-> s[i].duration]

TotalDuration(s) == SumSeq(Durations(s))

Range(s) == {s[i] : i \in 1..Len(s)}

(***************************************************************************)
(* The idle values of each component.                                      *)
(***************************************************************************)
SelIdle ==
    /\ clips = <<>> /\ target_duration = 0 /\ selected = <<>>
    /\ current_duration = 0 /\ sel_i = 0 /\ sel_pc = "idle"
    /\ sel_pos = <<>> /\ sel_pool = <<>>

NoCall == [fn |-> "none"]
NoResult == [kind |-> "none"]

EdIdle ==
    /\ ed_pc = "idle" /\ ed_call = NoCall /\ ed_clips = <<>> /\ ed_result = NoResult

ExecIdle ==
    /\ operations = <<>> /\ input_clip = NoResult /\ current_clip = NoResult
    /\ op_i = 0 /\ exec_pc = "idle" /\ exec_err = "" /\ dispatched = <<>>
    /\ calls = <<>>
    /\ context = [music_dir |-> ""]

ExpIdle ==
    /\ exp_pc = "idle" /\ exp_clip = NoResult /\ exp_written = 0
    /\ exp_file = "absent" /\ exp_closed = FALSE /\ exp_err = ""

JobIdle ==
    /\ job_pc = "idle" /\ reel_plan = [duration |-> 0, hook |-> FALSE]
    /\ source_posts = <<>> /\ download_tasks = <<>> /\ attempted = <<>>
    /\ downloaded = <<>> /\ all_clips_data = <<>> /\ video_clips = <<>>
    /\ final_video = NoResult /\ job_k = 0 /\ job_ret = "pending"
    /\ job_log = "" /\ job_caught = "" /\ job_exc = "" /\ task_ret = NoResult

CntIdle ==
    /\ cnt_pc = "idle" /\ input_files = <<>> /\ commands = <<>> /\ cnt_type = ""
    /\ cnt_clip = NoResult /\ cnt_k = 0 /\ cnt_ret = "pending" /\ cnt_err = ""

WsIdle ==
    /\ ws_job = <<>> /\ ws_cache = <<>> /\ ws_clock = 0 /\ ws_written = <<>> /\ ws_seen = <<>>

HdIdle ==
    handles = <<>>

PubIdle ==
    /\ pub_pc = "idle" /\ pub_kind = "" /\ pub_wait = FALSE /\ pub_urls = 0
    /\ pub_containers = <<>> /\ pub_i = 0 /\ pub_attempt = 0
    /\ published = <<>> /\ pub_err = ""

SchIdle ==
    /\ sch_status = "" /\ sch_due = FALSE /\ sch_active = FALSE /\ sch_queue = 0
    /\ sch_worker = <<>> /\ sch_ticks = 0 /\ sch_publishes = 0 /\ sch_cancel = <<>>

(***************************************************************************)
(* VideoRepurposer._select_clips_for_duration (repurposer.py 294-333).     *)
(* A clip-data dict is {filepath, start, end, duration}, as built by       *)
(* create_reel_from_plan (repurposer.py 226-231): duration = end - start.  *)
(***************************************************************************)
MIN_TRIM == 3      \* "elif remaining >= 3.0:  # At least 3 seconds"

CandidateDurations == 1..MaxDur
TargetDurations == 1..MaxTarget
StartTimes == {0, MaxStart}

ClipData(f, s, d) == [filepath |-> f, start |-> s, end |-> s + d, duration |-> d]

\* The pools a caller can hand over: up to MaxClips dicts, each of its own
\* identity (filepath stands for the dict's identity; the selection never
\* reads it).  The caller's order is listed by non-decreasing duration, since
\* the shuffle that follows produces every order.
CandidatePools ==
    UNION { { p \in [1..n -> [start : StartTimes, duration : CandidateDurations]] :
                \A i \in 1..(n-1) :
                    \/ p[i].duration < p[i+1].duration
                    \/ p[i].duration = p[i+1].duration /\ p[i].start <= p[i+1].start }
            : n \in 0..MaxClips }

\* Scenario C of the specification: three candidates of 10, 10 and 15
\* seconds for a target of 30.
ScenarioPools ==
    { <<[start |-> a, duration |-> 10], [start |-> b, duration |-> 10],
        [start |-> c, duration |-> 15]>> : a \in StartTimes, b \in StartTimes, c \in StartTimes }

SelInputs ==
    (CandidatePools \X TargetDurations) \cup (ScenarioPools \X {30})

PoolClips(p) == [i \in 1..Len(p) |-> ClipData(i, p[i].start, p[i].duration)]

SelInit ==
    /\ \E inp \in SelInputs : clips = PoolClips(inp[1]) /\ target_duration = inp[2]
    /\ sel_pool = clips
    /\ selected = <<>> /\ current_duration = 0 /\ sel_i = 0
    /\ sel_pos = <<>>
    /\ sel_pc = "call"

\* Lines 307-312: selected = [], current_duration = 0, random.shuffle(clips).
\* The shuffle reorders the caller's list in place; every order is possible.
Shuffled(s) == { [i \in 1..Len(s) |-> s[p[i]]] : p \in Permutations(1..Len(s)) }

SelectShuffle ==
    /\ sel_pc = "call"
    /\ clips' \in Shuffled(clips)
    /\ selected' = <<>>
    /\ current_duration' = 0
    /\ sel_i' = 1
    /\ sel_pc' = "loop"
    /\ UNCHANGED <<target_duration, sel_pos, sel_pool, sel_rest>>

\* Lines 318-319 of one iteration.
Remaining == target_duration - current_duration

\* A comparison that lets a clip one second too long through.
FitsOffByOne(clip) == clip.duration <= Remaining + 1

\* Line 322: the clip fits whole.
Fits(clip) == clip.duration <= Remaining

\* A strict comparison with the minimum usable length.
TrimmableStrict(clip) == ~Fits(clip) /\ Remaining > MIN_TRIM

\* Line 325: the clip overshoots and the remaining budget is worth a trim.
Trimmable(clip) == ~Fits(clip) /\ Remaining >= MIN_TRIM

\* A trim that moves the end but leaves the duration entry as it was.
TrimmedEndOnly(clip) == [clip EXCEPT !.end = clip.start + Remaining]

\* Lines 327-328: the dict is mutated in place.
Trimmed(clip) == [clip EXCEPT !.end = clip.start + Remaining, !.duration = Remaining]

\* Lines 314-316: the budget is used up, break.
SelectBreak ==
    /\ sel_pc = "loop" /\ sel_i <= Len(clips)
    /\ current_duration >= target_duration
    /\ sel_pc' = "returned"
    /\ UNCHANGED <<clips, target_duration, selected, current_duration, sel_i, sel_pos, sel_pool, sel_rest>>

\* Lines 322-324: use the full clip.
SelectFull ==
    /\ sel_pc = "loop" /\ sel_i <= Len(clips)
    /\ current_duration < target_duration
    /\ Fits(clips[sel_i])
    /\ selected' = Append(selected, clips[sel_i])
    /\ sel_pos' = Append(sel_pos, sel_i)
    /\ current_duration' = current_duration + clips[sel_i].duration
    /\ sel_i' = sel_i + 1
    /\ UNCHANGED <<clips, target_duration, sel_pc, sel_pool, sel_rest>>

\* Lines 325-331: trim the clip to the remaining time, then break.
SelectTrim ==
    /\ sel_pc = "loop" /\ sel_i <= Len(clips)
    /\ current_duration < target_duration
    /\ Trimmable(clips[sel_i])
    /\ clips' = [clips EXCEPT ![sel_i] = Trimmed(clips[sel_i])]
    /\ selected' = Append(selected, Trimmed(clips[sel_i]))
    /\ sel_pos' = Append(sel_pos, sel_i)
    /\ current_duration' = target_duration
    /\ sel_pc' = "returned"
    /\ UNCHANGED <<target_duration, sel_i, sel_pool, sel_rest>>

\* Neither branch of lines 322-331 is taken: the for loop goes on to the next clip.
SelectSkip ==
    /\ sel_pc = "loop" /\ sel_i <= Len(clips)
    /\ current_duration < target_duration
    /\ ~Fits(clips[sel_i]) /\ ~Trimmable(clips[sel_i])
    /\ sel_i' = sel_i + 1
    /\ UNCHANGED <<clips, target_duration, selected, current_duration, sel_pc, sel_pos, sel_pool, sel_rest>>

\* The for loop is exhausted; line 333 returns.
SelectExhausted ==
    /\ sel_pc = "loop" /\ sel_i > Len(clips)
    /\ sel_pc' = "returned"
    /\ UNCHANGED <<clips, target_duration, selected, current_duration, sel_i, sel_pos, sel_pool, sel_rest>>

NextSelect ==
    \/ SelectShuffle
    \/ SelectBreak
    \/ SelectFull
    \/ SelectTrim
    \/ SelectSkip
    \/ SelectExhausted

InitSelect == SelInit /\ EdIdle /\ ExecIdle /\ ExpIdle /\ JobIdle /\ CntIdle /\ WsIdle /\ HdIdle /\ PubIdle /\ SchIdle

SpecSelect == InitSelect /\ [][NextSelect]_vars

(***************************************************************************)
(* Claims about the clip selection.                                        *)
(***************************************************************************)
SelReturned == sel_pc = "returned"

\* C1: whatever the pool, the target (> 0) and the shuffled order, the
\* durations of the clips _select_clips_for_duration returns sum to at most
\* target_duration.
C1_SelectedNeverExceedsTarget ==
    SelReturned => TotalDuration(selected) <= target_duration

\* C1 witness: a call that returned after trimming an overshooting clip.
C1_Witness ==
    /\ SelReturned /\ selected # <<>>
    /\ selected[Len(selected)] \notin Range(sel_pool)
    /\ TotalDuration(sel_pool) > target_duration

PoolExceedsTarget == TotalDuration(sel_pool) > target_duration

\* C2 as stated: whenever the pool's total duration exceeds target_duration,
\* the selected total is exactly target_duration.
C2_Original ==
    (SelReturned /\ PoolExceedsTarget) => TotalDuration(selected) = target_duration

\* C2 amended: whenever the pool's total duration exceeds target_duration, the
\* selected total is at most target_duration and falls short of it by less
\* than the minimum usable length of 3 s.
C2_SelectedWithinMinTrimOfTarget ==
    (SelReturned /\ PoolExceedsTarget) =>
        /\ TotalDuration(selected) <= target_duration
        /\ TotalDuration(selected) > target_duration - MIN_TRIM

\* C2 witness: a pool larger than the target whose selection falls short,
\* an overshooting clip having been passed over with less than 3 s left.
C2_Witness ==
    /\ SelReturned /\ PoolExceedsTarget
    /\ TotalDuration(selected) < target_duration
    /\ Len(selected) < Len(clips)

\* Scenario C: target 30 and three candidates of 10, 10 and 15 seconds.
ScenarioC ==
    /\ target_duration = 30
    /\ Durations(sel_pool) = <<10, 10, 15>>

IsFull(c) == c \in Range(sel_pool)

\* C3 as stated: in scenario C the selection is the two 10 s segments in full
\* (20 s) plus a 10 s trim of the third, in every shuffled order.
C3_Original ==
    (SelReturned /\ ScenarioC) =>
        /\ Len(selected) = 3
        /\ IsFull(selected[1]) /\ IsFull(selected[2])
        /\ selected[1].duration + selected[2].duration = 20
        /\ ~IsFull(selected[3]) /\ selected[3].duration = 10

\* C3 amended: in scenario C the selection is, in every shuffled order, the
\* first two candidates of that order in full plus the third trimmed to what
\* is left of the 30 s (10 s of the 15 s segment when it comes last, 5 s of
\* a 10 s segment otherwise); the total is exactly 30 s.
C3_ScenarioCTotalsThirty ==
    (SelReturned /\ ScenarioC) =>
        /\ Len(selected) = 3
        /\ IsFull(selected[1]) /\ IsFull(selected[2])
        /\ ~IsFull(selected[3])
        /\ selected[3].duration = 30 - (selected[1].duration + selected[2].duration)
        /\ selected[3].end = selected[3].start + selected[3].duration
        /\ selected[3].duration \in {5, 10}
        /\ TotalDuration(selected) = 30

\* C3 witness: scenario C with the 15 s segment among the first two.
C3_Witness ==
    /\ SelReturned /\ ScenarioC
    /\ Len(selected) = 3 /\ selected[3].duration = 5

\* The candidate at position k of the shuffled order, as it was handed in.
Candidate(k) == CHOOSE c \in Range(sel_pool) : c.filepath = clips[k].filepath

MaxClipDur == 4    \* a source clip lasts MaxClipDur seconds
MaxSegs == 2       \* segments in a jump-cut list
MaxList == 3       \* clips in a list handed to concatenate_clips
MaxSide == 3       \* source frames are 1..MaxSide pixels a side (or 1080, 1920)
MaxCuts == 2       \* scene boundaries detect_scenes reports
MaxOps == 3        \* operations in a list handed to execute_operations

Fx(op, a, b) == [op |-> op, a |-> a, b |-> b]

\* VideoEditor.load_video / load_image: a freshly loaded clip.
SourceClip(name, d, w, h) ==
    [name |-> name, duration |-> d, w |-> w, h |-> h, fx |-> <<>>, timeline |-> <<>>]

\* What a call produces: a clip, a segment list, or an exception.
Ok(c) == [kind |-> "clip", clip |-> c]
Raise(e) == [kind |-> "error", err |-> e]
SegmentList(s) == [kind |-> "segments", segments |-> s]

MaxOf(S) == CHOOSE m \in S : \A x \in S : x <= m

\* clip.subclip(start, end): the new clip lasts end - start; the library
\* refuses a start beyond the clip's duration.
SubclipRaises(clip, start) == start > clip.duration

subclip(clip, start, end) ==
    [clip EXCEPT !.duration = end - start, !.fx = Append(@, Fx("subclip", start, end))]

\* clip.crossfadein(d), fadein(clip, d), fadeout(clip, d): the clip with the
\* effect applied; its duration and start are not changed.
crossfadein(clip, d) == [clip EXCEPT !.fx = Append(@, Fx("crossfadein", d, 0))]

fadein(clip, d) == [clip EXCEPT !.fx = Append(@, Fx("fadein", d, 0))]

fadeout(clip, d) == [clip EXCEPT !.fx = Append(@, Fx("fadeout", d, 0))]

\* A composition that plays the list back to front.
concatenate_videoclips_reversed(cs) ==
    [name |-> "composite",
     duration |-> TotalDuration(cs),
     w |-> MaxOf({cs[i].w : i \in 1..Len(cs)}),
     h |-> MaxOf({cs[i].h : i \in 1..Len(cs)}),
     fx |-> <<>>,
     timeline |-> [i \in 1..Len(cs) |-> cs[Len(cs) + 1 - i]]]

\* concatenate_videoclips(clips, method="compose") on a non-empty list: the
\* clips one after the other (no padding), on a canvas as large as the
\* largest of them.
concatenate_videoclips(cs) ==
    [name |-> "composite",
     duration |-> TotalDuration(cs),
     w |-> MaxOf({cs[i].w : i \in 1..Len(cs)}),
     h |-> MaxOf({cs[i].h : i \in 1..Len(cs)}),
     fx |-> <<>>,
     timeline |-> cs]

(***************************************************************************)
(* VideoEditor.trim_clip (video_editor.py 46-54).                          *)
(***************************************************************************)
trim_clip(clip, start, end) ==
    IF SubclipRaises(clip, start) THEN Raise("ValueError")
    ELSE Ok(subclip(clip, start, end))

(***************************************************************************)
(* VideoEditor.create_jump_cuts (video_editor.py 56-83).                   *)
(***************************************************************************)
\* Lines 71-76: one subclip per segment, in the order of the list; every
\* subclip but the first gets a cross-fade when transition_duration > 0.
JumpSubclips(clip, segments, transition_duration) ==
    [k \in 1..Len(segments) |->
        IF transition_duration > 0 /\ k > 1
        THEN crossfadein(subclip(clip, segments[k][1], segments[k][2]), transition_duration)
        ELSE subclip(clip, segments[k][1], segments[k][2])]

\* Jump cuts that lose the last segment.
create_jump_cuts_drop_last(clip, segments, transition_duration) ==
    IF \E k \in 1..Len(segments) : SubclipRaises(clip, segments[k][1])
    THEN Raise("ValueError")
    ELSE IF Len(segments) <= 1 THEN Raise("ValueError")
    ELSE Ok(concatenate_videoclips(
            JumpSubclips(clip, SubSeq(segments, 1, Len(segments) - 1), transition_duration)))

\* Lines 70-83: any exception is logged and raised again; composing an empty
\* list of subclips is one (max() of an empty sequence).
create_jump_cuts(clip, segments, transition_duration) ==
    IF \E k \in 1..Len(segments) : SubclipRaises(clip, segments[k][1])
    THEN Raise("ValueError")
    ELSE IF segments = <<>> THEN Raise("ValueError")
    ELSE Ok(concatenate_videoclips(JumpSubclips(clip, segments, transition_duration)))

(***************************************************************************)
(* VideoEditor.auto_detect_cuts (video_editor.py 85-114).                  *)
(* detect_scenes is the library's: it raises, or reports the scenes that   *)
(* its boundaries cut the clip into.                                       *)
(***************************************************************************)
SortedPoints(S) ==
    CHOOSE f \in [1..Cardinality(S) -> S] : \A i, j \in 1..Cardinality(S) : i < j => f[i] < f[j]

ScenesOf(d, cuts) ==
    LET pts == SortedPoints(cuts \cup {0, d})
    IN  [k \in 1..(Len(pts) - 1) |-> <<pts[k], pts[k+1]>>]

DetectOutcomes(clip) ==
    {[raised |-> TRUE, scenes |-> <<>>]} \cup
    {[raised |-> FALSE, scenes |-> ScenesOf(clip.duration, cuts)] :
        cuts \in {c \in SUBSET (1..(clip.duration - 1)) : Cardinality(c) <= MaxCuts}}

\* Lines 104-107.
FilterScenes(scenes, min_scene_duration) ==
    SelectSeq(scenes, LAMBDA sc : sc[2] - sc[1] >= min_scene_duration)

\* Lines 99-114: the filtered scenes; the whole clip as one scene only when
\* an exception was caught.
auto_detect_cuts(clip, min_scene_duration, detected) ==
    IF detected.raised THEN << <<0, clip.duration>> >>
    ELSE FilterScenes(detected.scenes, min_scene_duration)

(***************************************************************************)
(* VideoEditor.resize_for_instagram (video_editor.py 116-154) and          *)
(* Config.INSTAGRAM_SPECS (config.py 48-74).                               *)
(***************************************************************************)
ContentTypes == {"reel", "story", "carousel", "feed"}

\* Line 132: INSTAGRAM_SPECS.get(content_type, INSTAGRAM_SPECS['reel'])['resolution'].
Resolution(content_type) ==
    CASE content_type \in {"carousel", "feed"} -> <<1080, 1080>>
      [] OTHER -> <<1080, 1920>>

\* crop(clip, x1=.., width=..) and crop(clip, y1=.., height=..); the offset
\* is kept in half pixels (x_center - new_width/2 = (w - new_width)/2).
crop_width(clip, x1_halves, width) ==
    [clip EXCEPT !.w = width, !.fx = Append(@, Fx("crop_x", x1_halves, width))]

crop_height(clip, y1_halves, height) ==
    [clip EXCEPT !.h = height, !.fx = Append(@, Fx("crop_y", y1_halves, height))]

\* resize(clip, newsize=(w, h)).
resize(clip, newsize) ==
    [clip EXCEPT !.w = newsize[1], !.h = newsize[2],
                 !.fx = Append(@, Fx("resize", newsize[1], newsize[2]))]

\* A crop that takes the height of a wide source and the width of a tall one.
CropToRatioSwapped(clip, tw, th) ==
    IF clip.w * th > clip.h * tw
    THEN LET new_height == (clip.w * th) \div tw
         IN  crop_height(clip, clip.h - new_height, new_height)
    ELSE LET new_width == (clip.h * tw) \div th
         IN  crop_width(clip, clip.w - new_width, new_width)

\* Lines 139-149.  current_ratio > target_ratio is w/h > tw/th; int() of a
\* positive quotient is its floor.
CropToRatio(clip, tw, th) ==
    IF clip.w * th > clip.h * tw
    THEN LET new_width == (clip.h * tw) \div th
         IN  crop_width(clip, clip.w - new_width, new_width)
    ELSE LET new_height == (clip.w * th) \div tw
         IN  crop_height(clip, clip.h - new_height, new_height)

\* A resize that is skipped when nothing was cropped.
resize_for_instagram_crop_only(clip, content_type, method) ==
    LET target == Resolution(content_type)
    IN  IF method = "crop"
        THEN resize(CropToRatio(clip, target[1], target[2]), target)
        ELSE clip

resize_for_instagram(clip, content_type, method) ==
    LET target == Resolution(content_type)
    IN  resize(IF method = "crop" THEN CropToRatio(clip, target[1], target[2]) ELSE clip,
               target)

(***************************************************************************)
(* VideoEditor.concatenate_clips (video_editor.py 280-309).                *)
(***************************************************************************)
Transitions == {"none", "crossfade", "fadein", "fadeout"}

\* A transition step whose cross-fade loop starts at the first clip.
WithTransitionFromFirst(cs, transition, transition_duration) ==
    CASE transition = "crossfade" ->
            [i \in 1..Len(cs) |-> crossfadein(cs[i], transition_duration)]
      [] transition = "fadein" -> [cs EXCEPT ![1] = fadein(cs[1], transition_duration)]
      [] transition = "fadeout" -> [cs EXCEPT ![Len(cs)] = fadeout(cs[Len(cs)], transition_duration)]
      [] OTHER -> cs

\* Lines 295-302 on a non-empty list: the entries of the caller's list are
\* replaced in place.
WithTransition(cs, transition, transition_duration) ==
    CASE transition = "crossfade" ->
            [i \in 1..Len(cs) |-> IF i >= 2 THEN crossfadein(cs[i], transition_duration) ELSE cs[i]]
      [] transition = "fadein" -> [cs EXCEPT ![1] = fadein(cs[1], transition_duration)]
      [] transition = "fadeout" -> [cs EXCEPT ![Len(cs)] = fadeout(cs[Len(cs)], transition_duration)]
      [] OTHER -> cs

\* Lines 294-309: on an empty list clips[0] / clips[-1] raise IndexError, and
\* composing an empty list raises ValueError; both are raised again.
ConcatenateRaises(cs, transition) ==
    IF cs # <<>> THEN ""
    ELSE IF transition \in {"fadein", "fadeout"} THEN "IndexError" ELSE "ValueError"

concatenate_clips(cs, transition, transition_duration) ==
    IF ConcatenateRaises(cs, transition) # ""
    THEN Raise(ConcatenateRaises(cs, transition))
    ELSE Ok(concatenate_videoclips(WithTransition(cs, transition, transition_duration)))

(***************************************************************************)
(* VideoEditor.add_text_overlay and what it needs of the library.          *)
(***************************************************************************)
\* duration: Optional[float] = None (video_editor.py 164).
None == -1

\* CompositeVideoClip([clip, txt_clip]): the layers over each other on the
\* first layer's frame; it lasts until the last layer ends.
CompositeVideoClip(base, layer, layer_start) ==
    [name |-> "overlay",
     duration |-> MaxOf({base.duration, layer_start + layer.duration}),
     w |-> base.w, h |-> base.h, fx |-> <<>>,
     timeline |-> <<base, layer>>]

\* VideoEditor.add_text_overlay (video_editor.py 156-218).  Rendering the
\* text is the library's and may fail (text_ok); any exception is raised
\* again.  A missing duration is clip.duration - start_time (lines 200-201).
add_text_overlay(clip, duration, start_time, text_ok) ==
    IF ~text_ok THEN Raise("OSError")
    ELSE LET d == IF duration = None THEN clip.duration - start_time ELSE duration
             txt_clip == [name |-> "text", duration |-> d,
                          w |-> (clip.w * 8) \div 10, h |-> 0,
                          fx |-> <<Fx("set_start", start_time, 0)>>, timeline |-> <<>>]
         IN  Ok(CompositeVideoClip(clip, txt_clip, start_time))

(***************************************************************************)
(* Direct calls of the primitives: the call and its arguments are drawn    *)
(* in the initial state, one action per primitive carries the call out.    *)
(***************************************************************************)
FrameSides == (1..MaxSide) \cup {1080, 1920}

SegTimes(d) == 0..d

\* Segments of a clip of duration d: 0 <= start < end <= d.
ValidSegments(d) == {seg \in SegTimes(d) \X SegTimes(d) : seg[1] < seg[2]}

\* The segments a caller passes: the valid ones and one that starts past the end.
SegmentInputs(d) == ValidSegments(d) \cup {<<d + 1, d + 2>>}

SegmentLists(d) == UNION {[1..n -> SegmentInputs(d)] : n \in 0..MaxSegs}

JumpCall(d, segs, td) ==
    [fn |-> "create_jump_cuts", clip |-> SourceClip("a", d, 1920, 1080),
     segments |-> segs, transition_duration |-> td]

\* Scenario B of the specification: [(2,5),(10,12)] kept of a 20 s clip.
ScenarioB == JumpCall(20, << <<2, 5>>, <<10, 12>> >>, 0)

JumpCalls ==
    {JumpCall(MaxClipDur, segs, td) : segs \in SegmentLists(MaxClipDur), td \in {0, 1}}
        \cup {ScenarioB}

ConcatSources ==
    {SourceClip(n, d, 1080, 1920) : n \in {"a", "b"}, d \in {2, MaxClipDur}}
        \cup {SourceClip("c", 3, 1920, 1080)}

ConcatCalls ==
    UNION { { [fn |-> "concatenate_clips", clips |-> cs, transition |-> t,
               transition_duration |-> 1] :
                cs \in [1..n -> ConcatSources], t \in Transitions }
            : n \in 0..MaxList }

ResizeCalls ==
    { [fn |-> "resize_for_instagram", clip |-> SourceClip("a", MaxClipDur, w, h),
       content_type |-> ct, method |-> m] :
        w \in FrameSides, h \in FrameSides, ct \in ContentTypes \cup {"igtv"},
        m \in {"crop", "pad"} }

DetectCalls ==
    UNION { { [fn |-> "auto_detect_cuts", clip |-> SourceClip("a", d, 1920, 1080),
               min_scene_duration |-> m, detected |-> det] :
                m \in 1..3, det \in DetectOutcomes(SourceClip("a", d, 1920, 1080)) }
            : d \in 1..MaxClipDur }

\* A text laid over a clip from start_time on, for a given time or (None)
\* to the end of the clip; start_time may lie at or past the clip's end.
TextCalls ==
    UNION { { [fn |-> "add_text_overlay", clip |-> SourceClip("a", d, 1920, 1080),
               duration |-> dur, start_time |-> st, text_ok |-> ok] :
                dur \in {None, 1, 3}, st \in 0..(d + 1), ok \in BOOLEAN }
            : d \in 1..MaxClipDur }

EdCalls == JumpCalls \cup ConcatCalls \cup ResizeCalls \cup DetectCalls \cup TextCalls

EdInit ==
    /\ ed_call \in EdCalls
    /\ ed_clips = IF ed_call.fn = "concatenate_clips" THEN ed_call.clips ELSE <<>>
    /\ ed_result = NoResult
    /\ ed_pc = "call"

EdDone(result) == IF result.kind = "error" THEN "raised" ELSE "returned"

CallCreateJumpCuts ==
    /\ ed_pc = "call" /\ ed_call.fn = "create_jump_cuts"
    /\ ed_result' = create_jump_cuts(ed_call.clip, ed_call.segments, ed_call.transition_duration)
    /\ ed_pc' = EdDone(ed_result')
    /\ UNCHANGED <<ed_call, ed_clips, ed_rest>>

\* The list is the caller's: what lines 295-302 store in it stays there.
CallConcatenateClips ==
    /\ ed_pc = "call" /\ ed_call.fn = "concatenate_clips"
    /\ ed_result' = concatenate_clips(ed_clips, ed_call.transition, ed_call.transition_duration)
    /\ ed_clips' = IF ed_clips = <<>> THEN ed_clips
                   ELSE WithTransition(ed_clips, ed_call.transition, ed_call.transition_duration)
    /\ ed_pc' = EdDone(ed_result')
    /\ UNCHANGED <<ed_call, ed_rest>>

CallResizeForInstagram ==
    /\ ed_pc = "call" /\ ed_call.fn = "resize_for_instagram"
    /\ ed_result' = Ok(resize_for_instagram(ed_call.clip, ed_call.content_type, ed_call.method))
    /\ ed_pc' = "returned"
    /\ UNCHANGED <<ed_call, ed_clips, ed_rest>>

CallAutoDetectCuts ==
    /\ ed_pc = "call" /\ ed_call.fn = "auto_detect_cuts"
    /\ ed_result' = SegmentList(auto_detect_cuts(ed_call.clip, ed_call.min_scene_duration,
                                                 ed_call.detected))
    /\ ed_pc' = "returned"
    /\ UNCHANGED <<ed_call, ed_clips, ed_rest>>

CallAddTextOverlay ==
    /\ ed_pc = "call" /\ ed_call.fn = "add_text_overlay"
    /\ ed_result' = add_text_overlay(ed_call.clip, ed_call.duration, ed_call.start_time,
                                     ed_call.text_ok)
    /\ ed_pc' = EdDone(ed_result')
    /\ UNCHANGED <<ed_call, ed_clips, ed_rest>>

NextEdit ==
    \/ CallAddTextOverlay
    \/ CallCreateJumpCuts
    \/ CallConcatenateClips
    \/ CallResizeForInstagram
    \/ CallAutoDetectCuts

InitEdit == EdInit /\ SelIdle /\ ExecIdle /\ ExpIdle /\ JobIdle /\ CntIdle /\ WsIdle /\ HdIdle /\ PubIdle /\ SchIdle

SpecEdit == InitEdit /\ [][NextEdit]_vars

(***************************************************************************)
(* Claims about the primitives.                                            *)
(***************************************************************************)
Returned(fn) == ed_pc = "returned" /\ ed_call.fn = fn

\* The segment a jump-cut piece was cut at.
PieceSegment(piece) ==
    LET cuts == SelectSeq(piece.fx, LAMBDA x : x.op = "subclip")
    IN  <<cuts[Len(cuts)].a, cuts[Len(cuts)].b>>

\* piece is clip c, possibly with transition effects added after c's own.
IsClip(piece, c) ==
    /\ piece.name = c.name /\ piece.duration = c.duration
    /\ piece.w = c.w /\ piece.h = c.h /\ piece.timeline = c.timeline
    /\ Len(piece.fx) >= Len(c.fx) /\ SubSeq(piece.fx, 1, Len(c.fx)) = c.fx

\* C6: create_jump_cuts and concatenate_clips keep the caller's order: the
\* output timeline has one piece per input segment (clip), the k-th piece
\* being the k-th input segment (clip); nothing is reordered, dropped or
\* deduplicated.
C6_CallerOrderKept ==
    /\ Returned("create_jump_cuts") =>
          LET out == ed_result.clip.timeline
          IN  /\ Len(out) = Len(ed_call.segments)
              /\ \A k \in 1..Len(out) :
                    /\ out[k].name = ed_call.clip.name
                    /\ PieceSegment(out[k]) = ed_call.segments[k]
    /\ Returned("concatenate_clips") =>
          LET out == ed_result.clip.timeline
          IN  /\ Len(out) = Len(ed_call.clips)
              /\ \A k \in 1..Len(out) : IsClip(out[k], ed_call.clips[k])

\* C6 witness: a returned concatenation of three clips whose list repeats an
\* entry around a different one.
C6_Witness ==
    /\ Returned("concatenate_clips") /\ Len(ed_call.clips) = 3
    /\ ed_call.clips[1] = ed_call.clips[3] /\ ed_call.clips[1] # ed_call.clips[2]
    /\ Len(ed_result.clip.timeline) = 3

SegmentsTotal(segments) ==
    SumSeq([k \in 1..Len(segments) |-> segments[k][2] - segments[k][1]])

\* C7: with transition_duration = 0 the clip create_jump_cuts returns lasts
\* the sum of end - start over the segments.
C7_JumpCutsDurationIsSegmentSum ==
    (Returned("create_jump_cuts") /\ ed_call.transition_duration = 0) =>
        ed_result.clip.duration = SegmentsTotal(ed_call.segments)

\* C7 witness: scenario B, [(2,5),(10,12)] on a 20 s clip gives 5 s.
C7_Witness ==
    /\ Returned("create_jump_cuts") /\ ed_call.transition_duration = 0
    /\ ed_call.clip.duration = 20
    /\ ed_call.segments = << <<2, 5>>, <<10, 12>> >>
    /\ ed_result.clip.duration = 5

NoUsableScene ==
    /\ ~ed_call.detected.raised
    /\ \A k \in 1..Len(ed_call.detected.scenes) :
          ed_call.detected.scenes[k][2] - ed_call.detected.scenes[k][1]
              < ed_call.min_scene_duration

\* C8: when scene detection yields no usable scene (every detected scene is
\* shorter than min_scene_duration), auto_detect_cuts returns exactly the
\* whole-clip segment [(0, duration)], never an empty list.
C8_FallbackOnNoUsableScene ==
    (Returned("auto_detect_cuts") /\ NoUsableScene) =>
        ed_result.segments = << <<0, ed_call.clip.duration>> >>

\* C9: for every content type of the table, either method and every source
\* frame size, resize_for_instagram returns a clip of exactly the table's
\* resolution: 1080x1920 for reel and story, 1080x1080 for carousel and feed.
C9_ResizeYieldsTableResolution ==
    (Returned("resize_for_instagram") /\ ed_call.content_type \in ContentTypes) =>
        /\ ed_call.content_type \in {"reel", "story"} =>
              ed_result.clip.w = 1080 /\ ed_result.clip.h = 1920
        /\ ed_call.content_type \in {"carousel", "feed"} =>
              ed_result.clip.w = 1080 /\ ed_result.clip.h = 1080

\* C9 witness: a landscape source padded to the square feed format.
C9_Witness ==
    /\ Returned("resize_for_instagram")
    /\ ed_call.content_type = "feed" /\ ed_call.method = "pad"
    /\ ed_call.clip.w = 1920 /\ ed_call.clip.h = 1080
    /\ ed_result.clip.w = 1080 /\ ed_result.clip.h = 1080

OneClipCall == Returned("concatenate_clips") /\ Len(ed_call.clips) = 1

\* C10 as stated: concatenate_clips on a one-element list [c] returns c
\* unchanged (c's duration, no effect applied), whatever transition is asked.
C10_Original ==
    OneClipCall =>
        /\ ed_result.clip.duration = ed_call.clips[1].duration
        /\ ed_result.clip.timeline = <<ed_call.clips[1]>>

\* C10 amended: concatenate_clips on a one-element list [c] returns a clip
\* of c's duration and frame size that plays c alone; no effect is applied
\* to c when the transition is none or crossfade, while fadein and fadeout
\* apply their fade to c.
C10_SingleClipIdentity ==
    OneClipCall =>
        LET c == ed_call.clips[1]
            d == ed_call.transition_duration
        IN  /\ ed_result.clip.duration = c.duration
            /\ ed_result.clip.w = c.w /\ ed_result.clip.h = c.h
            /\ ed_call.transition \in {"none", "crossfade"} =>
                  ed_result.clip.timeline = <<c>>
            /\ ed_call.transition = "fadein" =>
                  ed_result.clip.timeline = <<fadein(c, d)>>
            /\ ed_call.transition = "fadeout" =>
                  ed_result.clip.timeline = <<fadeout(c, d)>>

\* C10 witness: a one-clip list concatenated with a cross-fade requested.
C10_Witness ==
    /\ OneClipCall /\ ed_call.transition = "crossfade"
    /\ ed_result.clip.timeline = ed_call.clips

CropCall == Returned("resize_for_instagram") /\ ed_call.method = "crop"

\* The source is wider than the target ratio: w/h > tw/th.
Wider(clip, target) == clip.w * target[2] > clip.h * target[1]

\* A crop window of the given size at the given offset (in half pixels) is
\* centred on a side of the given length and lies within it.
CentredWithin(offset_halves, size, side) ==
    /\ offset_halves >= 0
    /\ offset_halves + 2 * size <= 2 * side
    /\ offset_halves = 2 * side - (offset_halves + 2 * size)

\* C19: with method crop, resize_for_instagram crops exactly one dimension
\* before scaling: a source wider than the target ratio loses width only, any
\* other loses height only; the crop window is centred on the frame and lies
\* within it.
C19_CropOneDimensionCentred ==
    CropCall =>
        LET src == ed_call.clip
            steps == ed_result.clip.fx
            target == Resolution(ed_call.content_type)
        IN  /\ Len(steps) = 2 /\ steps[2].op = "resize"
            /\ Wider(src, target) =>
                  /\ steps[1].op = "crop_x"
                  /\ steps[1].b < src.w
                  /\ CentredWithin(steps[1].a, steps[1].b, src.w)
            /\ ~Wider(src, target) =>
                  /\ steps[1].op = "crop_y"
                  /\ steps[1].b <= src.h
                  /\ CentredWithin(steps[1].a, steps[1].b, src.h)

\* A 1920x1080 source cropped for a reel: 607 pixels of width are kept.
C19_Witness ==
    /\ CropCall /\ ed_call.content_type = "reel"
    /\ ed_call.clip.w = 1920 /\ ed_call.clip.h = 1080
    /\ ed_result.clip.fx[1] = Fx("crop_x", 1920 - 607, 607)

\* C20: concatenate_clips with transition crossfade overlaps every adjacent
\* pair by transition_duration: for n clips the result lasts the sum of the
\* clips' durations minus (n-1) * transition_duration.
C20_CrossfadeOverlapShortens ==
    (Returned("concatenate_clips") /\ ed_call.transition = "crossfade") =>
        ed_result.clip.duration =
            TotalDuration(ed_call.clips)
                - (Len(ed_call.clips) - 1) * ed_call.transition_duration

EdLeft == ed_pc \in {"returned", "raised"}

\* C27: concatenate_clips leaves its input alone: when it has returned or
\* raised, the caller's list holds the clips it held when the call was made,
\* at the same positions, whatever the transition.
C27_ConcatenateLeavesListAlone ==
    (EdLeft /\ ed_call.fn = "concatenate_clips") => ed_clips = ed_call.clips

\* C16: add_text_overlay called with start_time >= clip.duration fails (with
\* an invalid-time-range error) and returns no clip, whether duration is
\* given or None.
C16_LateTextOverlayRejected ==
    (EdLeft /\ ed_call.fn = "add_text_overlay"
            /\ ed_call.start_time >= ed_call.clip.duration) =>
        /\ ed_pc = "raised"
        /\ ed_result.kind = "error"

(***************************************************************************)
(* The primitives the executor reaches besides those above.                *)
(***************************************************************************)
\* VideoEditor.add_audio (video_editor.py 220-278).  Opening the audio file
\* may fail (audio_ok); set_audio leaves the clip's duration alone.
add_audio(clip, audio_ok) ==
    IF ~audio_ok THEN Raise("OSError")
    ELSE Ok([clip EXCEPT !.fx = Append(@, Fx("set_audio", 0, 0))])

\* VideoEditor.apply_speed_effect (video_editor.py 311-329): speedx divides
\* the duration by the factor (whole factors here, the quotient in whole
\* seconds).
apply_speed_effect(clip, factor) ==
    IF factor = 0 THEN Raise("ZeroDivisionError")
    ELSE Ok([clip EXCEPT !.duration = clip.duration \div factor,
                         !.fx = Append(@, Fx("speedx", factor, 0))])

(***************************************************************************)
(* CommandExecutor (nl_parser/command_parser.py 227-298).                  *)
(***************************************************************************)
NoParams == [n \in {} |-> 0]

\* operation.get('params', {}) (line 263).
ParamsOf(operation) ==
    IF "params" \in DOMAIN operation THEN operation.params ELSE NoParams

\* The keyword parameters of each primitive, clip aside: those without a
\* default, and all of them.
Required(fn) ==
    CASE fn = "trim_clip" -> {"start", "end"}
      [] fn = "create_jump_cuts" -> {"segments"}
      [] fn = "add_text_overlay" -> {"text"}
      [] fn = "add_audio" -> {"audio_path"}
      [] fn = "apply_speed_effect" -> {"factor"}
      [] OTHER -> {}

Allowed(fn) ==
    CASE fn = "trim_clip" -> {"start", "end"}
      [] fn = "create_jump_cuts" -> {"segments", "transition_duration"}
      [] fn = "auto_detect_cuts" -> {"threshold", "min_scene_duration"}
      [] fn = "add_text_overlay" ->
            {"text", "position", "fontsize", "color", "font", "duration",
             "start_time", "bg_color", "stroke_color", "stroke_width"}
      [] fn = "add_audio" ->
            {"audio_path", "start_time", "volume", "fade_in", "fade_out", "loop"}
      [] fn = "apply_speed_effect" -> {"factor"}
      [] fn = "resize_for_instagram" -> {"content_type", "method"}
      [] OTHER -> {}

\* fn(clip, **params) binds: every parameter without a default is given and
\* no keyword is unexpected; otherwise Python raises TypeError.
Binds(fn, params) ==
    /\ Required(fn) \subseteq DOMAIN params
    /\ DOMAIN params \subseteq Allowed(fn)

Arg(params, name, default) ==
    IF name \in DOMAIN params THEN params[name] ELSE default

\* The operation types _execute_single_operation has a branch for that
\* reaches a primitive (lines 265-290).
DispatchedTypes ==
    {"trim", "jump_cuts", "auto_jump_cuts", "add_text", "add_cta",
     "add_music", "speed", "resize"}

\* What the environment decides during one dispatch, each by the branch
\* that asks: what detect_scenes reports, whether the text renders, whether
\* the audio file opens, whether the path named by audio_file exists.
TypeOf(operation) == IF "type" \in DOMAIN operation THEN operation.type ELSE ""

Asked(operation, types) == IF TypeOf(operation) \in types THEN BOOLEAN ELSE {TRUE}

Envs(operation, clip) ==
    [detected : IF TypeOf(operation) = "auto_jump_cuts"
                THEN DetectOutcomes(clip)
                ELSE {[raised |-> TRUE, scenes |-> <<>>]},
     text_ok : Asked(operation, {"add_text", "add_cta"}),
     audio_ok : Asked(operation, {"add_music"}),
     file_exists : Asked(operation, {"add_music"})]

\* Lines 278-282: a relative audio_file that does not exist is replaced, in
\* the operation's own params dict, by its path under the music directory.
ResolveMusic(operation, music_dir, env) ==
    IF /\ "type" \in DOMAIN operation
       /\ operation.type = "add_music"
       /\ "params" \in DOMAIN operation
       /\ "audio_file" \in DOMAIN operation.params
       /\ ~env.file_exists
       /\ music_dir # ""
    THEN [operation EXCEPT !.params.audio_file = [@ EXCEPT !.dir = music_dir]]
    ELSE operation

\* An executor that passes over the operations it has no primitive for.
ExecuteSingleOperationLenient(operation, clip, env) ==
    IF "type" \notin DOMAIN operation THEN Raise("KeyError")
    ELSE LET op_type == operation.type
             params == ParamsOf(operation)
         IN  CASE op_type = "trim" ->
                    IF Binds("trim_clip", params)
                    THEN trim_clip(clip, params.start, params.end)
                    ELSE Raise("TypeError")
               [] op_type = "jump_cuts" ->
                    IF Binds("create_jump_cuts", params)
                    THEN create_jump_cuts(clip, params.segments,
                                          Arg(params, "transition_duration", 0))
                    ELSE Raise("TypeError")
               [] op_type = "auto_jump_cuts" ->
                    IF Binds("auto_detect_cuts", params)
                    THEN create_jump_cuts(clip,
                            auto_detect_cuts(clip, Arg(params, "min_scene_duration", 1),
                                             env.detected), 0)
                    ELSE Raise("TypeError")
               [] op_type \in {"add_text", "add_cta"} ->
                    IF Binds("add_text_overlay", params)
                    THEN add_text_overlay(clip, Arg(params, "duration", None),
                                          Arg(params, "start_time", 0), env.text_ok)
                    ELSE Raise("TypeError")
               [] op_type = "add_music" ->
                    IF Binds("add_audio", params)
                    THEN add_audio(clip, env.audio_ok)
                    ELSE Raise("TypeError")
               [] op_type = "speed" ->
                    IF Binds("apply_speed_effect", params)
                    THEN apply_speed_effect(clip, params.factor)
                    ELSE Raise("TypeError")
               [] op_type = "resize" ->
                    IF Binds("resize_for_instagram", params)
                    THEN Ok(resize_for_instagram(clip, Arg(params, "content_type", "reel"),
                                                 Arg(params, "method", "crop")))
                    ELSE Raise("TypeError")
               [] OTHER -> Ok(clip)

\* CommandExecutor._execute_single_operation (lines 260-298): the clip the
\* primitive returns, or the exception that leaves the call.
ExecuteSingleOperation(operation, clip, env) ==
    IF "type" \notin DOMAIN operation THEN Raise("KeyError")
    ELSE LET op_type == operation.type
             params == ParamsOf(operation)
         IN  CASE op_type = "trim" ->
                    IF Binds("trim_clip", params)
                    THEN trim_clip(clip, params.start, params.end)
                    ELSE Raise("TypeError")
               [] op_type = "jump_cuts" ->
                    IF Binds("create_jump_cuts", params)
                    THEN create_jump_cuts(clip, params.segments,
                                          Arg(params, "transition_duration", 0))
                    ELSE Raise("TypeError")
               [] op_type = "auto_jump_cuts" ->
                    IF Binds("auto_detect_cuts", params)
                    THEN create_jump_cuts(clip,
                            auto_detect_cuts(clip, Arg(params, "min_scene_duration", 1),
                                             env.detected), 0)
                    ELSE Raise("TypeError")
               [] op_type \in {"add_text", "add_cta"} ->
                    IF Binds("add_text_overlay", params)
                    THEN add_text_overlay(clip, Arg(params, "duration", None),
                                          Arg(params, "start_time", 0), env.text_ok)
                    ELSE Raise("TypeError")
               [] op_type = "add_music" ->
                    IF Binds("add_audio", params)
                    THEN add_audio(clip, env.audio_ok)
                    ELSE Raise("TypeError")
               [] op_type = "speed" ->
                    IF Binds("apply_speed_effect", params)
                    THEN apply_speed_effect(clip, params.factor)
                    ELSE Raise("TypeError")
               [] op_type = "resize" ->
                    IF Binds("resize_for_instagram", params)
                    THEN Ok(resize_for_instagram(clip, Arg(params, "content_type", "reel"),
                                                 Arg(params, "method", "crop")))
                    ELSE Raise("TypeError")
               [] op_type = "concatenate" -> Raise("NotImplementedError")
               [] OTHER -> Raise("ValueError")

\* The operations a list is made of: those the translator's prompt shows
\* (command_parser.py 18-68), the same with the primitives' own parameter
\* names, an unknown type, and a dict without a type.
Op(type, params) == [type |-> type, params |-> params]

MusicFile == [dir |-> "", file |-> "music.mp3"]

OpCatalogue ==
    { Op("trim", [start |-> 0, end |-> 2]),
      Op("trim", [start |-> 3, end |-> 4]),
      Op("trim", [start_time |-> 0, end_time |-> 2]),
      Op("jump_cuts", [segments |-> << <<0, 1>>, <<2, 3>> >>]),
      Op("auto_jump_cuts", [min_scene_duration |-> 2]),
      Op("add_text", [text |-> "hook", start_time |-> 0, duration |-> 3]),
      Op("add_music", [audio_path |-> MusicFile]),
      Op("add_music", [audio_file |-> MusicFile]),
      Op("speed", [factor |-> 2]),
      [type |-> "resize"],
      Op("concatenate", [transition |-> "crossfade"]),
      Op("rotate", NoParams),
      [params |-> NoParams] }

RECURSIVE OpLists(_)
OpLists(n) ==
    IF n = 0 THEN {<<>>}
    ELSE OpLists(n - 1) \cup
         {Append(l, o) : l \in {m \in OpLists(n - 1) : Len(m) = n - 1}, o \in OpCatalogue}

InputClips == {SourceClip("input", MaxClipDur, 1920, 1080)}

Contexts == {[music_dir |-> ""], [music_dir |-> "music"]}

ExecInit ==
    /\ operations \in OpLists(MaxOps)
    /\ input_clip \in InputClips
    /\ context \in Contexts
    /\ current_clip = NoResult
    /\ op_i = 0 /\ exec_pc = "call" /\ exec_err = "" /\ dispatched = <<>>
    /\ calls = <<>>

\* Lines 245-248: current_clip = input_clip, the loop starts.
ExecCall ==
    /\ exec_pc = "call"
    /\ current_clip' = input_clip
    /\ op_i' = 1
    /\ exec_pc' = "loop"
    /\ UNCHANGED <<operations, input_clip, context, exec_err, dispatched, calls>>
    /\ UNCHANGED exec_rest

\* A loop that hands every operation the clip execute_operations was given.
ExecStepOkFromInput ==
    /\ exec_pc = "loop"
    /\ op_i <= Len(operations)
    /\ \E env \in Envs(operations[op_i], input_clip) :
          LET result == ExecuteSingleOperation(operations[op_i], input_clip, env)
          IN  /\ result.kind = "clip"
              /\ current_clip' = result.clip
              /\ operations' = [operations EXCEPT
                                   ![op_i] = ResolveMusic(@, context.music_dir, env)]
              /\ calls' = Append(calls, [received |-> input_clip, result |-> result])
    /\ dispatched' = Append(dispatched, op_i)
    /\ op_i' = op_i + 1
    /\ UNCHANGED <<input_clip, context, exec_pc, exec_err>>
    /\ UNCHANGED exec_rest

\* Lines 250-253: the operation the loop is at is dispatched and returns a
\* clip, which becomes the accumulator.
ExecStepOk ==
    /\ exec_pc = "loop"
    /\ op_i <= Len(operations)
    /\ \E env \in Envs(operations[op_i], current_clip) :
          LET result == ExecuteSingleOperation(operations[op_i], current_clip, env)
          IN  /\ result.kind = "clip"
              /\ current_clip' = result.clip
              /\ operations' = [operations EXCEPT
                                   ![op_i] = ResolveMusic(@, context.music_dir, env)]
              /\ calls' = Append(calls, [received |-> current_clip, result |-> result])
    /\ dispatched' = Append(dispatched, op_i)
    /\ op_i' = op_i + 1
    /\ UNCHANGED <<input_clip, context, exec_pc, exec_err>>
    /\ UNCHANGED exec_rest

\* A loop that logs the failure and goes on to the next operation.
ExecStepRaiseContinues ==
    /\ exec_pc = "loop"
    /\ op_i <= Len(operations)
    /\ \E env \in Envs(operations[op_i], current_clip) :
          LET result == ExecuteSingleOperation(operations[op_i], current_clip, env)
          IN  /\ result.kind = "error"
              /\ exec_err' = result.err
              /\ operations' = [operations EXCEPT
                                   ![op_i] = ResolveMusic(@, context.music_dir, env)]
              /\ calls' = Append(calls, [received |-> current_clip, result |-> result])
    /\ dispatched' = Append(dispatched, op_i)
    /\ op_i' = op_i + 1
    /\ UNCHANGED <<input_clip, context, current_clip, exec_pc>>
    /\ UNCHANGED exec_rest

\* Lines 254-257: the dispatch raises; the exception is logged and raised
\* again, and execute_operations is left.
ExecStepRaise ==
    /\ exec_pc = "loop"
    /\ op_i <= Len(operations)
    /\ \E env \in Envs(operations[op_i], current_clip) :
          LET result == ExecuteSingleOperation(operations[op_i], current_clip, env)
          IN  /\ result.kind = "error"
              /\ exec_err' = result.err
              /\ operations' = [operations EXCEPT
                                   ![op_i] = ResolveMusic(@, context.music_dir, env)]
              /\ calls' = Append(calls, [received |-> current_clip, result |-> result])
    /\ dispatched' = Append(dispatched, op_i)
    /\ exec_pc' = "raised"
    /\ UNCHANGED <<input_clip, context, current_clip, op_i>>
    /\ UNCHANGED exec_rest

\* Line 258: the list is exhausted, the accumulator is returned.
ExecReturn ==
    /\ exec_pc = "loop"
    /\ op_i > Len(operations)
    /\ exec_pc' = "returned"
    /\ UNCHANGED <<operations, input_clip, context, current_clip, op_i, exec_err, dispatched,
                   calls>>
    /\ UNCHANGED exec_rest

NextExec ==
    \/ ExecCall
    \/ ExecStepOk
    \/ ExecStepRaise
    \/ ExecReturn

InitExec == ExecInit /\ SelIdle /\ EdIdle /\ ExpIdle /\ JobIdle /\ CntIdle /\ WsIdle /\ HdIdle /\ PubIdle /\ SchIdle

SpecExec == InitExec /\ [][NextExec]_vars

(***************************************************************************)
(* Claims about the executor.                                              *)
(***************************************************************************)
\* C4: execute_operations is strictly sequential and stops at the first
\* failure.  Every dispatch is of the index after the last one dispatched
\* (nothing skipped, nothing retried) and happens only while no operation
\* has raised; once one has raised the call has raised too, stays so, and
\* the call returns only when nothing raised.
C4_SequentialStopsAtFirstFailure ==
    [][ /\ (dispatched' # dispatched =>
                /\ exec_err = ""
                /\ dispatched' = Append(dispatched, Len(dispatched) + 1))
        /\ (exec_err' # "" => exec_pc' = "raised")
        /\ (exec_pc = "raised" => exec_pc' = "raised")
        /\ (exec_pc' = "returned" => exec_err' = "" /\ Len(dispatched') = Len(operations'))
      ]_vars

\* The second of three operations was the first to raise.
C4_Witness ==
    /\ exec_pc = "raised"
    /\ Len(dispatched) = 2
    /\ Len(operations) = 3
    /\ current_clip # input_clip

Unsupported(operation) ==
    /\ "type" \in DOMAIN operation
    /\ operation.type \notin DispatchedTypes

UnsupportedError(operation) ==
    IF operation.type = "concatenate" THEN "NotImplementedError" ELSE "ValueError"

\* C5: an operation of type concatenate, or of a type outside the
\* enumeration, makes the run fail at that operation with its error
\* (NotImplementedError, ValueError): it is the last one dispatched, the call
\* has raised, and a call that returned had no such operation in its list.
C5_UnsupportedOperationFailsTheRun ==
    /\ \A k \in 1..Len(dispatched) :
          Unsupported(operations[k]) =>
             /\ k = Len(dispatched)
             /\ exec_pc = "raised"
             /\ exec_err = UnsupportedError(operations[k])
    /\ exec_pc = "returned" => \A k \in 1..Len(operations) : ~Unsupported(operations[k])

\* A concatenate met after an operation that succeeded.
C5_Witness ==
    /\ exec_pc = "raised"
    /\ Len(dispatched) = 2
    /\ TypeOf(operations[2]) = "concatenate"
    /\ exec_err = "NotImplementedError"

\* C18: the executor threads one accumulator.  The first dispatch receives
\* the input clip and each later one the clip the dispatch before it
\* returned; the operations are dispatched once each in list order; the clip
\* returned after the last operation is what the last dispatch returned, and
\* with an empty list it is the input clip.
C18_SingleAccumulator ==
    /\ Len(calls) = Len(dispatched)
    /\ \A k \in 1..Len(dispatched) : dispatched[k] = k
    /\ \A k \in 1..Len(calls) :
          IF k = 1 THEN calls[k].received = input_clip
          ELSE /\ calls[k - 1].result.kind = "clip"
               /\ calls[k].received = calls[k - 1].result.clip
    /\ exec_pc = "returned" =>
          /\ Len(dispatched) = Len(operations)
          /\ \A k \in 1..Len(calls) : calls[k].result.kind = "clip"
          /\ current_clip = IF operations = <<>> THEN input_clip
                            ELSE calls[Len(calls)].result.clip

\* Three operations ran, each changing the clip it was handed.
C18_Witness ==
    /\ exec_pc = "returned"
    /\ Len(calls) = 3
    /\ \A k \in 1..3 : calls[k].result.clip # calls[k].received
    /\ calls[3].received # input_clip

\* The parameter names NaturalLanguageParser.SYSTEM_PROMPT tells the
\* translator to emit, per operation kind (command_parser.py 20-46).
PromptParams(op_type) ==
    CASE op_type = "trim" -> {"start_time", "end_time"}
      [] op_type = "jump_cuts" -> {"segments"}
      [] op_type = "auto_jump_cuts" -> {"threshold", "min_duration"}
      [] op_type = "add_text" ->
            {"text", "position", "start_time", "duration", "fontsize", "color", "stroke_color"}
      [] op_type = "add_music" -> {"audio_file", "volume", "fade_in", "fade_out", "loop"}
      [] op_type = "speed" -> {"factor"}
      [] op_type = "resize" -> {"content_type", "method"}
      [] op_type = "add_cta" -> {"text", "position", "start_time", "duration"}
      [] OTHER -> {}

\* Of those, the names an operation of the kind cannot do without (the
\* prompt marks the parameters of auto_jump_cuts optional; resize has
\* defaults).
PromptRequired(op_type) ==
    CASE op_type = "trim" -> {"start_time", "end_time"}
      [] op_type = "jump_cuts" -> {"segments"}
      [] op_type \in {"add_text", "add_cta"} -> {"text"}
      [] op_type = "add_music" -> {"audio_file"}
      [] op_type = "speed" -> {"factor"}
      [] OTHER -> {}

\* An operation as the prompt describes it: one of the eight single-clip
\* kinds, every parameter name one the prompt gives for the kind.
AsPrompted(operation) ==
    /\ TypeOf(operation) \in DispatchedTypes
    /\ DOMAIN ParamsOf(operation) \subseteq PromptParams(operation.type)
    /\ PromptRequired(operation.type) \subseteq DOMAIN ParamsOf(operation)

\* C30: an operation of one of the eight single-clip kinds whose params use
\* the names the prompt gives for the kind is accepted by the primitive it
\* is dispatched to: the dispatch does not fail on argument names
\* (TypeError).
C30_PromptedNamesAccepted ==
    \A k \in 1..Len(calls) :
        AsPrompted(operations[k]) =>
            ~(calls[k].result.kind = "error" /\ calls[k].result.err = "TypeError")

(***************************************************************************)
(* VideoEditor.export_video (video_editor.py 331-375).  The encoder is the *)
(* library's: it writes the destination second by second and may fail, or *)
(* be interrupted, before any second of it.                                *)
(***************************************************************************)
ExportClips ==
    {SourceClip("final", d, size[1], size[2]) :
        d \in 1..MaxClipDur, size \in {<<1080, 1920>>, <<1080, 1080>>, <<1920, 1080>>}}

ExportInit ==
    /\ exp_pc = "call"
    /\ exp_clip \in ExportClips
    /\ exp_file \in {"absent", "old"}
    /\ exp_written = 0 /\ exp_closed = FALSE /\ exp_err = ""

\* Lines 354-355: the destination's directory is made.
ExportMkdir ==
    /\ exp_pc = "call"
    /\ exp_pc' = "write"
    /\ UNCHANGED <<exp_clip, exp_written, exp_file, exp_closed, exp_err>>
    /\ UNCHANGED exp_rest

\* Lines 354-355 raise (the directory cannot be made): lines 369-371 log the
\* exception and raise it again, through finally.
ExportMkdirFails ==
    /\ exp_pc = "call"
    /\ exp_err' = "PermissionError"
    /\ exp_pc' = "finally"
    /\ UNCHANGED <<exp_clip, exp_written, exp_file, exp_closed>>
    /\ UNCHANGED exp_rest

\* Lines 357-366, write_videofile: one more second is in the destination.
ExportWrite ==
    /\ exp_pc = "write"
    /\ exp_written < exp_clip.duration
    /\ exp_written' = exp_written + 1
    /\ exp_file' = "partial"
    /\ UNCHANGED <<exp_pc, exp_clip, exp_closed, exp_err>>
    /\ UNCHANGED exp_rest

\* An encode error that leaves export_video at once, the clip left open.
ExportEncodeErrorNoCleanup ==
    /\ exp_pc = "write"
    /\ exp_written < exp_clip.duration
    /\ exp_err' = "IOError"
    /\ exp_pc' = "raised"
    /\ UNCHANGED <<exp_clip, exp_written, exp_file, exp_closed>>
    /\ UNCHANGED exp_rest

\* write_videofile raises part-way: lines 369-371 log the exception and raise
\* it again, through finally.  Nothing in export_video touches the
\* destination.
ExportEncodeError ==
    /\ exp_pc = "write"
    /\ exp_written < exp_clip.duration
    /\ exp_err' = "IOError"
    /\ exp_pc' = "finally"
    /\ UNCHANGED <<exp_clip, exp_written, exp_file, exp_closed>>
    /\ UNCHANGED exp_rest

\* The export is interrupted (KeyboardInterrupt is no Exception: line 369
\* does not catch it, finally still runs).
ExportCancel ==
    /\ exp_pc = "write"
    /\ exp_written < exp_clip.duration
    /\ exp_err' = "KeyboardInterrupt"
    /\ exp_pc' = "finally"
    /\ UNCHANGED <<exp_clip, exp_written, exp_file, exp_closed>>
    /\ UNCHANGED exp_rest

\* write_videofile returns: the whole clip is in the destination (lines
\* 367-368).
ExportWritten ==
    /\ exp_pc = "write"
    /\ exp_written = exp_clip.duration
    /\ exp_file' = "complete"
    /\ exp_pc' = "finally"
    /\ UNCHANGED <<exp_clip, exp_written, exp_closed, exp_err>>
    /\ UNCHANGED exp_rest

\* Lines 372-374: finally: clip.close(); then the path is returned or the
\* exception goes on to the caller.
ExportFinally ==
    /\ exp_pc = "finally"
    /\ exp_closed' = TRUE
    /\ exp_pc' = IF exp_err = "" THEN "returned" ELSE "raised"
    /\ UNCHANGED <<exp_clip, exp_written, exp_file, exp_err>>
    /\ UNCHANGED exp_rest

NextExport ==
    \/ ExportMkdir
    \/ ExportMkdirFails
    \/ ExportWrite
    \/ ExportEncodeError
    \/ ExportCancel
    \/ ExportWritten
    \/ ExportFinally

InitExport == ExportInit /\ SelIdle /\ EdIdle /\ ExecIdle /\ JobIdle /\ CntIdle /\ WsIdle /\ HdIdle /\ PubIdle /\ SchIdle

SpecExport == InitExport /\ [][NextExport]_vars

(***************************************************************************)
(* Claims about the export.                                                *)
(***************************************************************************)
ExportLeft == exp_pc \in {"returned", "raised"}

\* C11: export releases the clip's resources on every exit path: once
\* export_video has returned a path or raised, whatever step failed, the
\* clip handed to it has been closed.
C11_ClipClosedOnEveryExit ==
    ExportLeft => exp_closed

\* An export that failed part-way through the encode and closed the clip.
C11_Witness ==
    /\ exp_pc = "raised" /\ exp_err = "IOError"
    /\ exp_written > 0
    /\ exp_closed

\* C12: when an export fails part-way or is cancelled, no partially written
\* destination file is on disk when the error reaches the caller.
C12_NoPartialFileOnFailure ==
    exp_pc = "raised" => exp_file # "partial"

(***************************************************************************)
(* VideoRepurposer.create_reel_from_plan (repurposer.py 178-283) with      *)
(* download_batch, download_media and extract_best_clips, called by the    *)
(* task create_video_from_reel_plan (content_tasks.py 155-196).  The clip  *)
(* selection and the export are the actions above, entered by a call.      *)
(***************************************************************************)
MaxPosts == 2      \* posts handed to a job

MAX_VIDEO_POSTS == 5       \* "[:5]"
EXTRACT_MIN == 3           \* duration_range=(3.0, 8.0)
EXTRACT_MAX == 8
EXTRACT_CLIPS == 3         \* max_clips=3
HOOK_DURATION == 3         \* duration=3.0
REEL_TRANSITION_TENTHS == 3    \* transition_duration=0.3; a label, no duration is computed from it

Min(a, b) == IF a <= b THEN a ELSE b

\* A source video lasts 2 or 4 seconds (too short for a clip, long enough for one).
VideoLengths == {2, 4}

\* A post is {media_id, media_url, media_type} and, behind its url, a video
\* of some length.  media_id 0 and media_url "" stand for a missing entry.
Post(id, url, type, length) ==
    [media_id |-> id, media_url |-> url, media_type |-> type, length |-> length]

PostKinds(id) ==
    {Post(id, "url", "VIDEO", d) : d \in VideoLengths}
        \cup {Post(id, "", "VIDEO", 0), Post(0, "url", "VIDEO", 0), Post(id, "url", "IMAGE", 0)}

SourcePosts ==
    UNION { {ps \in [1..n -> UNION {PostKinds(id) : id \in 1..n}] :
                \A i \in 1..n : ps[i] \in PostKinds(i)} : n \in 0..MaxPosts }

\* _parse_duration of the plan's duration entry ("30s" when it has none).
ReelTargets == {2, 4, 5, 7, 30}

ReelPlans == [duration : ReelTargets, hook : BOOLEAN]

\* Line 208: the posts whose media_type says video, the first five of them.
VideoPosts(posts) ==
    LET videos == SelectSeq(posts, LAMBDA p : p.media_type = "VIDEO")
    IN  SubSeq(videos, 1, Min(MAX_VIDEO_POSTS, Len(videos)))

\* Lines 100-113: a post without url or id is passed over.
DownloadTasks(posts) ==
    SelectSeq(posts, LAMBDA p : p.media_url # "" /\ p.media_id # 0
                                   /\ p.media_type \in {"VIDEO", "IMAGE"})

\* The file of a download: named after the media id (lines 62-65).
FileOf(media_id) == media_id

LengthOf(filepath) ==
    (CHOOSE p \in Range(source_posts) : FileOf(p.media_id) = filepath).length

VideoOf(filepath) == SourceClip(filepath, LengthOf(filepath), 1920, 1080)

\* What can happen inside extract_best_clips: the file does not load, or
\* the scene detection has one of its outcomes.
ExtractOutcomes(video) ==
    {[loaded |-> FALSE]} \cup {[loaded |-> TRUE, detected |-> o] : o \in DetectOutcomes(video)}

InRange(sc, lo, hi) == lo <= sc[2] - sc[1] /\ sc[2] - sc[1] <= hi

\* Lines 158-165: the video split into max_clips pieces of
\* min(hi, total / max_clips) seconds.  A video shorter than lo * max_clips
\* gives no piece of lo seconds, whatever the fraction.
SplitVideo(total, lo, hi, max_clips) ==
    LET clip_duration == Min(hi, total \div max_clips)
        pieces == [i \in 1..max_clips |->
                      <<(i - 1) * clip_duration,
                        Min((i - 1) * clip_duration + clip_duration, total)>>]
    IN  SelectSeq(pieces, LAMBDA sc : sc[2] - sc[1] >= lo)

\* extract_best_clips (lines 126-176): any exception gives the empty list.
extract_best_clips(video, lo, hi, max_clips, outcome) ==
    IF ~outcome.loaded THEN <<>>
    ELSE LET scenes == auto_detect_cuts(video, lo, outcome.detected)
             in_range == SelectSeq(scenes, LAMBDA sc : InRange(sc, lo, hi))
             valid_scenes == IF in_range = <<>>
                             THEN SplitVideo(video.duration, lo, hi, max_clips)
                             ELSE in_range
         IN  SubSeq(valid_scenes, 1, Min(max_clips, Len(valid_scenes)))

\* Lines 225-231.
ClipsData(filepath, clips_times) ==
    [k \in 1..Len(clips_times) |->
        [filepath |-> filepath, start |-> clips_times[k][1], end |-> clips_times[k][2],
         duration |-> clips_times[k][2] - clips_times[k][1]]]

\* Lines 243-249 for one selected clip: load, trim, resize for a reel.
ProcessClip(clip_data, loads) ==
    IF ~loads THEN Raise("IOError")
    ELSE LET trimmed == trim_clip(VideoOf(clip_data.filepath), clip_data.start, clip_data.end)
         IN  IF trimmed.kind = "error" THEN trimmed
             ELSE Ok(resize_for_instagram(trimmed.clip, "reel", "crop"))

\* A clip handle: VideoFileClip(path) opens a reader on the file
\* (video_editor.py 26-34); closed tells whether close() was called on it.
Handle(by, file, closed) == [by |-> by, file |-> file, closed |-> closed]

\* The handle of one extract_best_clips call (lines 143-176): none when the
\* file does not load, else opened at line 144 and closed at line 171.
ExtractHandles(hs, filepath, outcome) ==
    IF outcome.loaded THEN Append(hs, Handle("extract_best_clips", filepath, TRUE)) ELSE hs

JobInit ==
    /\ job_pc = "call"
    /\ reel_plan \in ReelPlans
    /\ source_posts \in SourcePosts
    /\ download_tasks = <<>> /\ attempted = <<>> /\ downloaded = <<>>
    /\ all_clips_data = <<>> /\ video_clips = <<>> /\ final_video = NoResult
    /\ job_k = 0 /\ job_ret = "pending" /\ job_log = ""
    /\ job_caught = "" /\ job_exc = "" /\ task_ret = NoResult
    /\ handles = <<>>

\* Lines 209-211.
JobNoVideoPosts ==
    /\ job_pc = "call"
    /\ VideoPosts(source_posts) = <<>>
    /\ job_log' = "No video posts available for repurposing"
    /\ job_ret' = "None"
    /\ job_pc' = "returned"
    /\ UNCHANGED <<reel_plan, source_posts, download_tasks, attempted, downloaded,
                   all_clips_data, video_clips, final_video, job_k, job_caught, job_exc,
                   task_ret>>
    /\ UNCHANGED job_rest

\* Line 213 and lines 100-113: download_batch lists what it will download.
JobDownloadBatch ==
    /\ job_pc = "call"
    /\ VideoPosts(source_posts) # <<>>
    /\ download_tasks' = DownloadTasks(VideoPosts(source_posts))
    /\ job_k' = 1
    /\ job_pc' = "download"
    /\ UNCHANGED <<reel_plan, source_posts, attempted, downloaded, all_clips_data,
                   video_clips, final_video, job_ret, job_log, job_caught, job_exc, task_ret>>
    /\ UNCHANGED job_rest

\* A failed download that ends download_batch with nothing.
JobDownloadFailsAborts ==
    /\ job_pc = "download"
    /\ job_k <= Len(download_tasks)
    /\ attempted' = Append(attempted, download_tasks[job_k].media_id)
    /\ downloaded' = <<>>
    /\ job_k' = Len(download_tasks) + 1
    /\ UNCHANGED <<job_pc, reel_plan, source_posts, download_tasks, all_clips_data,
                   video_clips, final_video, job_ret, job_log, job_caught, job_exc, task_ret>>
    /\ UNCHANGED job_rest

\* Lines 116-119 with download_media returning the file's path (lines 60-83).
JobDownloadOk ==
    /\ job_pc = "download"
    /\ job_k <= Len(download_tasks)
    /\ attempted' = Append(attempted, download_tasks[job_k].media_id)
    /\ downloaded' = Append(downloaded,
                            <<download_tasks[job_k].media_id,
                              FileOf(download_tasks[job_k].media_id)>>)
    /\ job_k' = job_k + 1
    /\ UNCHANGED <<job_pc, reel_plan, source_posts, download_tasks, all_clips_data,
                   video_clips, final_video, job_ret, job_log, job_caught, job_exc, task_ret>>
    /\ UNCHANGED job_rest

\* Lines 116-119 with download_media catching an exception and returning
\* None (lines 85-87): nothing is appended, the loop goes on.
JobDownloadFails ==
    /\ job_pc = "download"
    /\ job_k <= Len(download_tasks)
    /\ attempted' = Append(attempted, download_tasks[job_k].media_id)
    /\ job_k' = job_k + 1
    /\ UNCHANGED <<job_pc, reel_plan, source_posts, download_tasks, downloaded,
                   all_clips_data, video_clips, final_video, job_ret, job_log, job_caught,
                   job_exc, task_ret>>
    /\ UNCHANGED job_rest

\* Lines 215-217.
JobNoDownloads ==
    /\ job_pc = "download"
    /\ job_k > Len(download_tasks)
    /\ downloaded = <<>>
    /\ job_log' = "Failed to download any source videos"
    /\ job_ret' = "None"
    /\ job_pc' = "returned"
    /\ UNCHANGED <<reel_plan, source_posts, download_tasks, attempted, downloaded,
                   all_clips_data, video_clips, final_video, job_k, job_caught, job_exc,
                   task_ret>>
    /\ UNCHANGED job_rest

\* Line 220: something was downloaded, the extraction loop starts.
JobExtractStart ==
    /\ job_pc = "download"
    /\ job_k > Len(download_tasks)
    /\ downloaded # <<>>
    /\ all_clips_data' = <<>>
    /\ job_k' = 1
    /\ job_pc' = "extract"
    /\ UNCHANGED <<reel_plan, source_posts, download_tasks, attempted, downloaded,
                   video_clips, final_video, job_ret, job_log, job_caught, job_exc, task_ret>>
    /\ UNCHANGED job_rest

\* Lines 221-231 for one download.
JobExtractClips ==
    /\ job_pc = "extract"
    /\ job_k <= Len(downloaded)
    /\ \E outcome \in ExtractOutcomes(VideoOf(downloaded[job_k][2])) :
          /\ all_clips_data' =
                 all_clips_data \o
                     ClipsData(downloaded[job_k][2],
                               extract_best_clips(VideoOf(downloaded[job_k][2]), EXTRACT_MIN,
                                                  EXTRACT_MAX, EXTRACT_CLIPS, outcome))
          /\ handles' = ExtractHandles(handles, downloaded[job_k][2], outcome)
    /\ job_k' = job_k + 1
    /\ UNCHANGED <<job_pc, reel_plan, source_posts, download_tasks, attempted, downloaded,
                   video_clips, final_video, job_ret, job_log, job_caught, job_exc, task_ret>>
    /\ UNCHANGED <<sel_vars, ed_vars, exec_vars, exp_vars, cnt_vars, ws_vars, pub_vars, sch_vars>>

\* Lines 233-235.
JobNoClips ==
    /\ job_pc = "extract"
    /\ job_k > Len(downloaded)
    /\ all_clips_data = <<>>
    /\ job_log' = "No clips extracted"
    /\ job_ret' = "None"
    /\ job_pc' = "returned"
    /\ UNCHANGED <<reel_plan, source_posts, download_tasks, attempted, downloaded,
                   all_clips_data, video_clips, final_video, job_k, job_caught, job_exc,
                   task_ret>>
    /\ UNCHANGED job_rest

\* Line 238: _select_clips_for_duration(all_clips_data, target_duration) is called.
JobSelectCall ==
    /\ job_pc = "extract"
    /\ job_k > Len(downloaded)
    /\ all_clips_data # <<>>
    /\ sel_pc = "idle"
    /\ clips' = all_clips_data
    /\ sel_pool' = all_clips_data
    /\ target_duration' = reel_plan.duration
    /\ selected' = <<>> /\ current_duration' = 0 /\ sel_i' = 0 /\ sel_pos' = <<>>
    /\ sel_pc' = "call"
    /\ job_pc' = "select"
    /\ UNCHANGED <<reel_plan, source_posts, download_tasks, attempted, downloaded,
                   all_clips_data, video_clips, final_video, job_k, job_ret, job_log,
                   job_caught, job_exc, task_ret>>
    /\ UNCHANGED <<ed_vars, exec_vars, exp_vars, cnt_vars, ws_vars, hd_vars, pub_vars, sch_vars>>

\* Lines 238-242: the selection has returned (the shuffle and the trim were
\* made on all_clips_data itself), the assembly loop starts.
JobAssembleStart ==
    /\ job_pc = "select"
    /\ sel_pc = "returned"
    /\ all_clips_data' = clips
    /\ video_clips' = <<>>
    /\ job_k' = 1
    /\ job_pc' = "assemble"
    /\ UNCHANGED <<reel_plan, source_posts, download_tasks, attempted, downloaded,
                   final_video, job_ret, job_log, job_caught, job_exc, task_ret>>
    /\ UNCHANGED job_rest

\* Lines 243-249 for one selected clip.
JobAssembleClip ==
    /\ job_pc = "assemble"
    /\ job_k <= Len(selected)
    /\ ProcessClip(selected[job_k], TRUE).kind = "clip"
    /\ video_clips' = Append(video_clips, ProcessClip(selected[job_k], TRUE).clip)
    /\ job_k' = job_k + 1
    /\ UNCHANGED <<job_pc, reel_plan, source_posts, download_tasks, attempted, downloaded,
                   all_clips_data, final_video, job_ret, job_log, job_caught, job_exc,
                   task_ret>>
    /\ handles' = Append(handles, Handle("create_reel_from_plan", selected[job_k].filepath, FALSE))
    /\ UNCHANGED <<sel_vars, ed_vars, exec_vars, exp_vars, cnt_vars, ws_vars, pub_vars, sch_vars>>

\* Lines 243-249 raise (the file does not load, the trim is refused); lines
\* 281-283 catch the exception, log it and return None.
JobAssembleRaises ==
    /\ job_pc = "assemble"
    /\ job_k <= Len(selected)
    /\ \E loads \in BOOLEAN :
          /\ ProcessClip(selected[job_k], loads).kind = "error"
          /\ job_caught' = ProcessClip(selected[job_k], loads).err
          /\ handles' = IF loads
                        THEN Append(handles, Handle("create_reel_from_plan",
                                                    selected[job_k].filepath, FALSE))
                        ELSE handles
    /\ job_ret' = "None"
    /\ job_pc' = "returned"
    /\ UNCHANGED <<reel_plan, source_posts, download_tasks, attempted, downloaded,
                   all_clips_data, video_clips, final_video, job_k, job_log, job_exc,
                   task_ret>>
    /\ UNCHANGED <<sel_vars, ed_vars, exec_vars, exp_vars, cnt_vars, ws_vars, pub_vars, sch_vars>>

ReelConcatenation ==
    concatenate_clips(video_clips, "crossfade", REEL_TRANSITION_TENTHS)

\* Lines 252-254.
JobConcatenate ==
    /\ job_pc = "assemble"
    /\ job_k > Len(selected)
    /\ ReelConcatenation.kind = "clip"
    /\ final_video' = ReelConcatenation.clip
    /\ video_clips' = WithTransition(video_clips, "crossfade", REEL_TRANSITION_TENTHS)
    /\ job_pc' = "overlay"
    /\ UNCHANGED <<reel_plan, source_posts, download_tasks, attempted, downloaded,
                   all_clips_data, job_k, job_ret, job_log, job_caught, job_exc, task_ret>>
    /\ UNCHANGED job_rest

\* Lines 252-254 raise (nothing was selected, the list is empty); caught by
\* lines 281-283.
JobConcatenateRaises ==
    /\ job_pc = "assemble"
    /\ job_k > Len(selected)
    /\ ReelConcatenation.kind = "error"
    /\ job_caught' = ReelConcatenation.err
    /\ job_ret' = "None"
    /\ job_pc' = "returned"
    /\ UNCHANGED <<reel_plan, source_posts, download_tasks, attempted, downloaded,
                   all_clips_data, video_clips, final_video, job_k, job_log, job_exc,
                   task_ret>>
    /\ UNCHANGED job_rest

\* Line 257: the plan has no hook.
JobNoHook ==
    /\ job_pc = "overlay"
    /\ ~reel_plan.hook
    /\ job_pc' = "export_call"
    /\ UNCHANGED <<reel_plan, source_posts, download_tasks, attempted, downloaded,
                   all_clips_data, video_clips, final_video, job_k, job_ret, job_log,
                   job_caught, job_exc, task_ret>>
    /\ UNCHANGED job_rest

\* Lines 257-266: the hook is laid over the first three seconds.
JobOverlay ==
    /\ job_pc = "overlay"
    /\ reel_plan.hook
    /\ final_video' = add_text_overlay(final_video, HOOK_DURATION, 0, TRUE).clip
    /\ job_pc' = "export_call"
    /\ UNCHANGED <<reel_plan, source_posts, download_tasks, attempted, downloaded,
                   all_clips_data, video_clips, job_k, job_ret, job_log, job_caught, job_exc,
                   task_ret>>
    /\ UNCHANGED job_rest

\* Lines 257-266 raise (the text cannot be rendered); caught by lines 281-283.
JobOverlayRaises ==
    /\ job_pc = "overlay"
    /\ reel_plan.hook
    /\ job_caught' = add_text_overlay(final_video, HOOK_DURATION, 0, FALSE).err
    /\ job_ret' = "None"
    /\ job_pc' = "returned"
    /\ UNCHANGED <<reel_plan, source_posts, download_tasks, attempted, downloaded,
                   all_clips_data, video_clips, final_video, job_k, job_log, job_exc,
                   task_ret>>
    /\ UNCHANGED job_rest

\* Lines 269-276: export_video(final_video, outputs_dir / "reel_<timestamp>.mp4").
JobExportCall ==
    /\ job_pc = "export_call"
    /\ exp_pc = "idle"
    /\ exp_clip' = final_video
    /\ exp_file' = "absent"
    /\ exp_written' = 0 /\ exp_closed' = FALSE /\ exp_err' = ""
    /\ exp_pc' = "call"
    /\ job_pc' = "export"
    /\ UNCHANGED <<reel_plan, source_posts, download_tasks, attempted, downloaded,
                   all_clips_data, video_clips, final_video, job_k, job_ret, job_log,
                   job_caught, job_exc, task_ret>>
    /\ UNCHANGED <<sel_vars, ed_vars, exec_vars, cnt_vars, ws_vars, hd_vars, pub_vars, sch_vars>>

\* Lines 278-279: the path is returned.
JobExportReturned ==
    /\ job_pc = "export"
    /\ exp_pc = "returned"
    /\ job_ret' = "path"
    /\ job_pc' = "returned"
    /\ UNCHANGED <<reel_plan, source_posts, download_tasks, attempted, downloaded,
                   all_clips_data, video_clips, final_video, job_k, job_log, job_caught,
                   job_exc, task_ret>>
    /\ UNCHANGED job_rest

\* export_video raised an Exception; caught by lines 281-283.
JobExportRaised ==
    /\ job_pc = "export"
    /\ exp_pc = "raised"
    /\ exp_err # "KeyboardInterrupt"
    /\ job_caught' = exp_err
    /\ job_ret' = "None"
    /\ job_pc' = "returned"
    /\ UNCHANGED <<reel_plan, source_posts, download_tasks, attempted, downloaded,
                   all_clips_data, video_clips, final_video, job_k, job_log, job_exc,
                   task_ret>>
    /\ UNCHANGED job_rest

\* The export was interrupted: KeyboardInterrupt is no Exception, neither
\* line 281 nor the task's handler (content_tasks.py 192) catches it.
JobInterrupted ==
    /\ job_pc = "export"
    /\ exp_pc = "raised"
    /\ exp_err = "KeyboardInterrupt"
    /\ job_exc' = exp_err
    /\ job_pc' = "raised"
    /\ UNCHANGED <<reel_plan, source_posts, download_tasks, attempted, downloaded,
                   all_clips_data, video_clips, final_video, job_k, job_ret, job_log,
                   job_caught, task_ret>>
    /\ UNCHANGED job_rest

\* create_video_from_reel_plan, content_tasks.py 177-190: None becomes a
\* failure dict with a fixed message, a path a success dict.
TaskReturn ==
    /\ job_pc = "returned"
    /\ task_ret' = IF job_ret = "None"
                   THEN [success |-> FALSE, error |-> "Video creation failed"]
                   ELSE [success |-> TRUE, error |-> ""]
    /\ job_pc' = "task_returned"
    /\ UNCHANGED <<reel_plan, source_posts, download_tasks, attempted, downloaded,
                   all_clips_data, video_clips, final_video, job_k, job_ret, job_log,
                   job_caught, job_exc>>
    /\ UNCHANGED job_rest

NextReel ==
    \/ JobNoVideoPosts
    \/ JobDownloadBatch
    \/ JobDownloadOk
    \/ JobDownloadFails
    \/ JobNoDownloads
    \/ JobExtractStart
    \/ JobExtractClips
    \/ JobNoClips
    \/ JobSelectCall
    \/ SelectShuffle
    \/ SelectBreak
    \/ SelectFull
    \/ SelectTrim
    \/ SelectSkip
    \/ SelectExhausted
    \/ JobAssembleStart
    \/ JobAssembleClip
    \/ JobAssembleRaises
    \/ JobConcatenate
    \/ JobConcatenateRaises
    \/ JobNoHook
    \/ JobOverlay
    \/ JobOverlayRaises
    \/ JobExportCall
    \/ ExportMkdir
    \/ ExportMkdirFails
    \/ ExportWrite
    \/ ExportEncodeError
    \/ ExportCancel
    \/ ExportWritten
    \/ ExportFinally
    \/ JobExportReturned
    \/ JobExportRaised
    \/ JobInterrupted
    \/ TaskReturn

InitReel == JobInit /\ SelIdle /\ EdIdle /\ ExecIdle /\ ExpIdle /\ CntIdle /\ WsIdle /\ PubIdle /\ SchIdle

SpecReel == InitReel /\ [][NextReel]_vars

(***************************************************************************)
(* Claims about the repurposing job.                                       *)
(***************************************************************************)
DownloadsDone == job_pc \notin {"idle", "call", "download"} /\ download_tasks # <<>>

NoSourceMaterial == job_log = "Failed to download any source videos"

\* C13: a failed download does not end the job.  The downloads are
\* attempted one after the other in the order of the task list, each once,
\* whatever the earlier ones did; when the loop is over every task was
\* attempted and the job goes on with the downloads that succeeded; it
\* returns for lack of downloads only when none succeeded.
C13_DownloadFailureDoesNotAbort ==
    /\ Len(attempted) <= Len(download_tasks)
    /\ \A k \in 1..Len(attempted) : attempted[k] = download_tasks[k].media_id
    /\ \A k \in 1..Len(downloaded) :
          \E j \in 1..Len(attempted) : attempted[j] = downloaded[k][1]
    /\ DownloadsDone => Len(attempted) = Len(download_tasks)
    /\ NoSourceMaterial => downloaded = <<>>
    /\ (DownloadsDone /\ downloaded # <<>>) => ~NoSourceMaterial

\* The first download failed, the second succeeded and the job delivered a file.
C13_Witness ==
    /\ job_pc = "task_returned" /\ task_ret.success
    /\ Len(attempted) = 2
    /\ Len(downloaded) = 1
    /\ downloaded[1][1] = attempted[2]

\* C14: an error a primitive raises during the job (load, trim, resize,
\* concatenate, text overlay, export) reaches the top-level caller as an
\* error: when a primitive has raised, neither create_reel_from_plan nor the
\* task returns normally.
C14_PrimitiveErrorReachesCaller ==
    job_caught # "" => job_pc \notin {"returned", "task_returned"}

(***************************************************************************)
(* InstaAIStudio.create_content (main.py 68-132).  The parser is the       *)
(* language model's: what it returns for a command is any operation list.  *)
(* The executor and the export are the actions above, entered by a call.   *)
(***************************************************************************)
MaxCommands == 2   \* commands handed to create_content

IMAGE_DURATION == 5        \* load_image(image_path, duration=5.0)

\* An input file: a video of some length, or an image.
InputFile(suffix, length) == [suffix |-> suffix, length |-> length]

InputFileLists ==
    {<<InputFile(".mp4", d)>> : d \in {2, MaxClipDur}} \cup {<<InputFile(".png", 0)>>}

\* Lines 92-95: an image lasts IMAGE_DURATION, a video as long as its file.
LoadInput(file) ==
    IF file.suffix \in {".jpg", ".jpeg", ".png"}
    THEN SourceClip("input", IMAGE_DURATION, 1920, 1080)
    ELSE SourceClip("input", file.length, 1920, 1080)

CommandLists == {[i \in 1..n |-> i] : n \in 0..MaxCommands}

\* parsed['operations'] for a command.
ParsedOperations ==
    { <<>>,
      <<Op("trim", [start |-> 0, end |-> 2])>>,
      <<Op("speed", [factor |-> 2]), Op("add_text", [text |-> "hook", start_time |-> 0, duration |-> 3])>>,
      <<Op("concatenate", [transition |-> "crossfade"])>> }

\* Line 121.
RESIZED_TYPES == {"reel", "story", "carousel", "feed"}

ContentInit ==
    /\ cnt_pc = "call"
    /\ input_files \in InputFileLists
    /\ commands \in CommandLists
    /\ cnt_type \in RESIZED_TYPES \cup {"igtv"}
    /\ cnt_clip = NoResult /\ cnt_k = 0 /\ cnt_ret = "pending" /\ cnt_err = ""

\* Lines 91-104: the first input file is loaded.
ContentLoad ==
    /\ cnt_pc = "call"
    /\ cnt_clip' = LoadInput(input_files[1])
    /\ cnt_k' = 1
    /\ cnt_pc' = "commands"
    /\ UNCHANGED <<input_files, commands, cnt_type, cnt_ret, cnt_err>>
    /\ UNCHANGED cnt_rest

\* Lines 91-95 raise (the file cannot be read); lines 130-132 log the
\* exception and raise it again.
ContentLoadRaises ==
    /\ cnt_pc = "call"
    /\ cnt_err' = "IOError"
    /\ cnt_pc' = "raised"
    /\ UNCHANGED <<input_files, commands, cnt_type, cnt_clip, cnt_k, cnt_ret>>
    /\ UNCHANGED cnt_rest

\* Lines 107-118: the command is parsed and execute_operations is called
\* with the clip so far.
ContentExecuteCall ==
    /\ cnt_pc = "commands"
    /\ cnt_k <= Len(commands)
    /\ operations' \in ParsedOperations
    /\ input_clip' = cnt_clip
    /\ context' = [music_dir |-> "music"]
    /\ current_clip' = NoResult
    /\ op_i' = 0 /\ exec_err' = "" /\ dispatched' = <<>> /\ calls' = <<>>
    /\ exec_pc' = "call"
    /\ cnt_pc' = "executing"
    /\ UNCHANGED <<input_files, commands, cnt_type, cnt_clip, cnt_k, cnt_ret, cnt_err>>
    /\ UNCHANGED <<sel_vars, ed_vars, exp_vars, job_vars, ws_vars, hd_vars, pub_vars, sch_vars>>

\* Line 114: clip = the clip execute_operations returned.
ContentExecuteReturned ==
    /\ cnt_pc = "executing"
    /\ exec_pc = "returned"
    /\ cnt_clip' = current_clip
    /\ cnt_k' = cnt_k + 1
    /\ cnt_pc' = "commands"
    /\ UNCHANGED <<input_files, commands, cnt_type, cnt_ret, cnt_err>>
    /\ UNCHANGED cnt_rest

\* execute_operations raised; lines 130-132 log the exception and raise it again.
ContentExecuteRaised ==
    /\ cnt_pc = "executing"
    /\ exec_pc = "raised"
    /\ cnt_err' = exec_err
    /\ cnt_pc' = "raised"
    /\ UNCHANGED <<input_files, commands, cnt_type, cnt_clip, cnt_k, cnt_ret>>
    /\ UNCHANGED cnt_rest

\* Lines 121-122: the clip is resized for its content type.
ContentResize ==
    /\ cnt_pc = "commands"
    /\ cnt_k > Len(commands)
    /\ cnt_type \in RESIZED_TYPES
    /\ cnt_clip' = resize_for_instagram(cnt_clip, cnt_type, "crop")
    /\ cnt_pc' = "export_call"
    /\ UNCHANGED <<input_files, commands, cnt_type, cnt_k, cnt_ret, cnt_err>>
    /\ UNCHANGED cnt_rest

\* Line 121: a content type outside the list is exported as it is.
ContentNoResize ==
    /\ cnt_pc = "commands"
    /\ cnt_k > Len(commands)
    /\ cnt_type \notin RESIZED_TYPES
    /\ cnt_pc' = "export_call"
    /\ UNCHANGED <<input_files, commands, cnt_type, cnt_clip, cnt_k, cnt_ret, cnt_err>>
    /\ UNCHANGED cnt_rest

\* Line 125: export_video(clip, output_path); the destination may exist.
ContentExportCall ==
    /\ cnt_pc = "export_call"
    /\ exp_clip' = cnt_clip
    /\ exp_file' \in {"absent", "old"}
    /\ exp_written' = 0 /\ exp_closed' = FALSE /\ exp_err' = ""
    /\ exp_pc' = "call"
    /\ cnt_pc' = "export"
    /\ UNCHANGED <<input_files, commands, cnt_type, cnt_clip, cnt_k, cnt_ret, cnt_err>>
    /\ UNCHANGED <<sel_vars, ed_vars, exec_vars, job_vars, ws_vars, hd_vars, pub_vars, sch_vars>>

\* Lines 127-128: the path is returned.
ContentExportReturned ==
    /\ cnt_pc = "export"
    /\ exp_pc = "returned"
    /\ cnt_ret' = "path"
    /\ cnt_pc' = "returned"
    /\ UNCHANGED <<input_files, commands, cnt_type, cnt_clip, cnt_k, cnt_err>>
    /\ UNCHANGED cnt_rest

\* export_video raised (or was interrupted): the exception leaves create_content.
ContentExportRaised ==
    /\ cnt_pc = "export"
    /\ exp_pc = "raised"
    /\ cnt_err' = exp_err
    /\ cnt_pc' = "raised"
    /\ UNCHANGED <<input_files, commands, cnt_type, cnt_clip, cnt_k, cnt_ret>>
    /\ UNCHANGED cnt_rest

NextContent ==
    \/ ContentLoad
    \/ ContentLoadRaises
    \/ ContentExecuteCall
    \/ ExecCall
    \/ ExecStepOk
    \/ ExecStepRaise
    \/ ExecReturn
    \/ ContentExecuteReturned
    \/ ContentExecuteRaised
    \/ ContentResize
    \/ ContentNoResize
    \/ ContentExportCall
    \/ ExportMkdir
    \/ ExportMkdirFails
    \/ ExportWrite
    \/ ExportEncodeError
    \/ ExportCancel
    \/ ExportWritten
    \/ ExportFinally
    \/ ContentExportReturned
    \/ ContentExportRaised

InitContent == ContentInit /\ SelIdle /\ EdIdle /\ ExecIdle /\ ExpIdle /\ JobIdle /\ WsIdle /\ HdIdle /\ PubIdle /\ SchIdle

SpecContent == InitContent /\ [][NextContent]_vars

(***************************************************************************)
(* Claims about the files the pipeline returns.                            *)
(***************************************************************************)
REEL_MIN_DURATION == 3     \* INSTAGRAM_SPECS['reel']['min_duration']
REEL_MAX_DURATION == 90    \* INSTAGRAM_SPECS['reel']['max_duration']

\* C15: every file returned for content type reel has a resolution of
\* 1080x1920 and lasts between 3 and 90 seconds.
C15_ReelFileMeetsRenderSpec ==
    (cnt_pc = "returned" /\ cnt_type = "reel") =>
        /\ exp_file = "complete"
        /\ exp_clip.w = 1080 /\ exp_clip.h = 1920
        /\ REEL_MIN_DURATION <= exp_clip.duration
        /\ exp_clip.duration <= REEL_MAX_DURATION

(***************************************************************************)
(* Concurrent repurposing jobs.  Each create_video_from_reel_plan task     *)
(* builds its own VideoRepurposer() (content_tasks.py 173), whose          *)
(* workspace is the default one (repurposer.py 34-43); download_media      *)
(* (repurposer.py 47-87) and the output path (repurposer.py 268-276) are   *)
(* followed step by step, the steps of different jobs interleaved.         *)
(***************************************************************************)
MaxCalls == 2      \* download_media calls a job makes
MaxClock == 1      \* seconds the wall clock moves on

Jobs == {1, 2}

MediaIds == {1, 2}

Urls == {"url_a", "url_b"}

\* Lines 34-38 with no workspace_dir given: tempfile.gettempdir() / "instaai_videos".
Workspace(job) == "instaai_videos"

\* Lines 62-65: downloads_dir / (hash of the media id + extension).
DownloadPath(job, media_id) == <<Workspace(job), "downloads", media_id>>

\* Lines 269-273: outputs_dir / "reel_<YYYYmmdd_HHMMSS>.mp4".
OutputPath(job, now) == <<Workspace(job), "outputs", now>>

NoFile == [state |-> "absent", url |-> "", writers |-> {}]

JobOff ==
    [pc |-> "off", media_id |-> 0, url |-> "", ret |-> "pending",
     late |-> FALSE, net |-> FALSE, calls |-> 0]

WsInit ==
    /\ ws_job = [j \in Jobs |-> JobOff]
    /\ ws_cache = [m \in MediaIds |-> NoFile]
    /\ ws_clock = 0
    /\ ws_written = [j \in Jobs |-> {}]
    /\ ws_seen = [fetched |-> [m \in MediaIds |-> 0],
                  overlapped |-> FALSE, overwritten |-> FALSE, handed_open |-> FALSE]

InCall(j) == ws_job[j].pc \in {"check", "got", "write"}

Running(j) == ws_job[j].pc \notin {"off", "done"}

\* content_tasks.py 173: repurposer = VideoRepurposer().
WsJobStart ==
    \E j \in Jobs :
        /\ ws_job[j].pc = "off"
        /\ ws_job' = [ws_job EXCEPT ![j].pc = "idle"]
        /\ UNCHANGED <<ws_cache, ws_clock, ws_written, ws_seen>>
        /\ UNCHANGED ws_rest

\* download_media(url, media_id) is called (lines 47-49).
DlCall ==
    \E j \in Jobs, m \in MediaIds, u \in Urls :
        /\ ws_job[j].pc = "idle"
        /\ ws_job[j].calls < MaxCalls
        /\ ws_job' = [ws_job EXCEPT ![j] =
                         [pc |-> "check", media_id |-> m, url |-> u, ret |-> "pending",
                          late |-> ws_seen.fetched[m] > 0, net |-> FALSE,
                          calls |-> ws_job[j].calls + 1]]
        /\ ws_seen' = [ws_seen EXCEPT
                          !.overlapped = @ \/ \E k \in Jobs \ {j} : InCall(k)]
        /\ UNCHANGED <<ws_cache, ws_clock, ws_written>>
        /\ UNCHANGED ws_rest

\* Lines 68-70: the file exists, its path is returned.
DlCached ==
    \E j \in Jobs :
        /\ ws_job[j].pc = "check"
        /\ ws_cache[ws_job[j].media_id].state # "absent"
        /\ ws_job' = [ws_job EXCEPT ![j].pc = "idle", ![j].ret = "path"]
        /\ ws_seen' = [ws_seen EXCEPT
                          !.handed_open = @ \/ ws_cache[ws_job[j].media_id].state = "writing"]
        /\ UNCHANGED <<ws_cache, ws_clock, ws_written>>
        /\ UNCHANGED ws_rest

\* A request made whether or not the file is there.
DlRequestUnconditional ==
    \E j \in Jobs :
        /\ ws_job[j].pc = "check"
        /\ ws_job' = [ws_job EXCEPT ![j].pc = "got", ![j].net = TRUE]
        /\ UNCHANGED <<ws_cache, ws_clock, ws_written, ws_seen>>
        /\ UNCHANGED ws_rest

\* Lines 68-76: the file does not exist, the url is fetched.
DlRequest ==
    \E j \in Jobs :
        /\ ws_job[j].pc = "check"
        /\ ws_cache[ws_job[j].media_id].state = "absent"
        /\ ws_job' = [ws_job EXCEPT ![j].pc = "got", ![j].net = TRUE]
        /\ UNCHANGED <<ws_cache, ws_clock, ws_written, ws_seen>>
        /\ UNCHANGED ws_rest

\* Lines 74-76 raise (no answer, an error status); lines 85-87 return None.
DlRequestFails ==
    \E j \in Jobs :
        /\ ws_job[j].pc = "check"
        /\ ws_cache[ws_job[j].media_id].state = "absent"
        /\ ws_job' = [ws_job EXCEPT ![j].pc = "idle", ![j].net = TRUE, ![j].ret = "None"]
        /\ UNCHANGED <<ws_cache, ws_clock, ws_written, ws_seen>>
        /\ UNCHANGED ws_rest

\* Line 78: open(filepath, "wb") creates the file, or empties the one that is there.
DlOpen ==
    \E j \in Jobs :
        /\ ws_job[j].pc = "got"
        /\ ws_cache' = [ws_cache EXCEPT ![ws_job[j].media_id] =
                           [state |-> "writing", url |-> ws_job[j].url,
                            writers |-> @.writers \cup {j}]]
        /\ ws_seen' = [ws_seen EXCEPT
                          !.overwritten = @ \/ ws_cache[ws_job[j].media_id].state # "absent"]
        /\ ws_written' = [ws_written EXCEPT
                             ![j] = @ \cup {DownloadPath(j, ws_job[j].media_id)}]
        /\ ws_job' = [ws_job EXCEPT ![j].pc = "write"]
        /\ UNCHANGED ws_clock
        /\ UNCHANGED ws_rest

\* Lines 79-83: the content is written, the file closed, the path returned.
\* ws_seen.fetched counts the downloads of an id: 0, 1, or 2 for more than one.
DlWritten ==
    \E j \in Jobs :
        /\ ws_job[j].pc = "write"
        /\ ws_cache' = [ws_cache EXCEPT ![ws_job[j].media_id] =
                           [state |-> IF @.writers \ {j} = {} THEN "complete" ELSE "writing",
                            url |-> @.url,
                            writers |-> @.writers \ {j}]]
        /\ ws_seen' = [ws_seen EXCEPT !.fetched[ws_job[j].media_id] = Min(@ + 1, 2)]
        /\ ws_job' = [ws_job EXCEPT ![j].pc = "idle", ![j].ret = "path"]
        /\ UNCHANGED <<ws_clock, ws_written>>
        /\ UNCHANGED ws_rest

\* Lines 269-276: the reel is exported to a path named after the second it is.
\* The downloads are over, what the last call held is forgotten.
WsExport ==
    \E j \in Jobs :
        /\ ws_job[j].pc = "idle"
        /\ ws_written' = [ws_written EXCEPT ![j] = @ \cup {OutputPath(j, ws_clock)}]
        /\ ws_job' = [ws_job EXCEPT ![j] = [JobOff EXCEPT !.pc = "export"]]
        /\ UNCHANGED <<ws_cache, ws_clock, ws_seen>>
        /\ UNCHANGED ws_rest

\* The task returns.
WsJobEnd ==
    \E j \in Jobs :
        /\ ws_job[j].pc = "export"
        /\ ws_job' = [ws_job EXCEPT ![j].pc = "done"]
        /\ UNCHANGED <<ws_cache, ws_clock, ws_written, ws_seen>>
        /\ UNCHANGED ws_rest

\* A second passes.
WsTick ==
    /\ ws_clock < MaxClock
    /\ ws_clock' = ws_clock + 1
    /\ UNCHANGED <<ws_job, ws_cache, ws_written, ws_seen>>
    /\ UNCHANGED ws_rest

NextWorkspace ==
    \/ WsJobStart
    \/ DlCall
    \/ DlCached
    \/ DlRequest
    \/ DlRequestFails
    \/ DlOpen
    \/ DlWritten
    \/ WsExport
    \/ WsJobEnd
    \/ WsTick

InitWorkspace == WsInit /\ SelIdle /\ EdIdle /\ ExecIdle /\ ExpIdle /\ JobIdle /\ CntIdle /\ HdIdle /\ PubIdle /\ SchIdle

SpecWorkspace == InitWorkspace /\ [][NextWorkspace]_vars

C22_CacheAppendOnly ==
    ~ws_seen.overwritten /\ ~ws_seen.handed_open

\* C23: no two jobs running at the same time write to the same path.
C23_JobsWriteDistinctPaths ==
    \A j, k \in Jobs :
        (j # k /\ Running(j) /\ Running(k)) => ws_written[j] \cap ws_written[k] = {}

(***************************************************************************)
(* Claim about the clip handles of a repurposing job (SpecReel).           *)
(***************************************************************************)
JobLeft == job_pc \in {"returned", "raised", "task_returned"}

\* C24: every clip handle opened during a repurposing job, by
\* extract_best_clips and by create_reel_from_plan for each selected clip,
\* is closed by the time create_reel_from_plan has returned, on the success
\* path and on every failure path.
C24_HandlesClosedOnReturn ==
    JobLeft => \A k \in 1..Len(handles) : handles[k].closed

(***************************************************************************)
(* InstagramGraphAPI.publish_photo, publish_reel and publish_carousel      *)
(* (graph_api.py 657-816): containers are created, polled with             *)
(* get_container_status (627-655) and published with publish_container     *)
(* (593-625).  One step of the model is one request and what the code does *)
(* with its answer.                                                        *)
(***************************************************************************)
PHOTO_MAX_ATTEMPTS == 30     \* graph_api.py 689
REEL_MAX_ATTEMPTS == 60      \* graph_api.py 740
ITEM_MAX_ATTEMPTS == 30      \* graph_api.py 795
CAROUSEL_MIN_ITEMS == 2      \* graph_api.py 775
CAROUSEL_MAX_ITEMS == 10     \* graph_api.py 775

PublishKinds == {"photo", "reel", "carousel"}

\* The lengths of media_urls tried: too short, allowed, too long.
CarouselSizes == {1, 2, 11}

\* What status_code a poll can answer when it is neither FINISHED nor ERROR.
PendingCodes == {"IN_PROGRESS", "EXPIRED"}

NoPublish == <<>>

Container == [polls |-> 0, reported |-> "none"]

max_attempts(kind) ==
    CASE kind = "photo" -> PHOTO_MAX_ATTEMPTS
      [] kind = "reel" -> REEL_MAX_ATTEMPTS
      [] OTHER -> ITEM_MAX_ATTEMPTS

\* The containers created before the wait: one, or one per media url.
ToCreate == IF pub_kind = "carousel" THEN pub_urls ELSE 1

PublishInit ==
    /\ pub_pc = "call"
    /\ pub_kind \in PublishKinds
    /\ pub_wait \in BOOLEAN
    /\ pub_urls \in IF pub_kind = "carousel" THEN CarouselSizes ELSE {1}
    /\ pub_containers = <<>> /\ pub_i = 0 /\ pub_attempt = 0
    /\ published = NoPublish /\ pub_err = ""

\* Lines 775-776: a carousel of fewer than 2 or more than 10 urls is refused.
PubCarouselRefused ==
    /\ pub_pc = "call"
    /\ pub_kind = "carousel"
    /\ (pub_urls < CAROUSEL_MIN_ITEMS \/ pub_urls > CAROUSEL_MAX_ITEMS)
    /\ pub_err' = "ValueError"
    /\ pub_pc' = "raised"
    /\ UNCHANGED <<pub_kind, pub_wait, pub_urls, pub_containers, pub_i, pub_attempt, published>>
    /\ UNCHANGED pub_rest

\* The arguments are accepted, the containers are created next.
PubAccepted ==
    /\ pub_pc = "call"
    /\ pub_kind = "carousel" =>
          (pub_urls >= CAROUSEL_MIN_ITEMS /\ pub_urls <= CAROUSEL_MAX_ITEMS)
    /\ pub_pc' = "create"
    /\ UNCHANGED <<pub_kind, pub_wait, pub_urls, pub_containers, pub_i, pub_attempt,
                   published, pub_err>>
    /\ UNCHANGED pub_rest

\* Lines 679-684, 719-726, 778-787: a container is created.
PubCreateContainer ==
    /\ pub_pc = "create"
    /\ Len(pub_containers) < ToCreate
    /\ pub_containers' = Append(pub_containers, Container)
    /\ UNCHANGED <<pub_pc, pub_kind, pub_wait, pub_urls, pub_i, pub_attempt, published,
                   pub_err>>
    /\ UNCHANGED pub_rest

\* A request raises (raise_for_status, a timeout): the exception leaves the call.
PubRequestFails ==
    /\ pub_pc \in {"create", "poll", "ready", "publish"}
    /\ pub_err' = "HTTPError"
    /\ pub_pc' = "raised"
    /\ UNCHANGED <<pub_kind, pub_wait, pub_urls, pub_containers, pub_i, pub_attempt, published>>
    /\ UNCHANGED pub_rest

\* Lines 687-689, 737-739, 791-795: wait_for_completion, the first loop starts.
PubWait ==
    /\ pub_pc = "create"
    /\ Len(pub_containers) = ToCreate
    /\ pub_wait
    /\ pub_i' = 1
    /\ pub_attempt' = 0
    /\ pub_pc' = "poll"
    /\ UNCHANGED <<pub_kind, pub_wait, pub_urls, pub_containers, published, pub_err>>
    /\ UNCHANGED pub_rest

\* wait_for_completion is False: no poll is made.
PubNoWait ==
    /\ pub_pc = "create"
    /\ Len(pub_containers) = ToCreate
    /\ ~pub_wait
    /\ pub_pc' = "ready"
    /\ UNCHANGED <<pub_kind, pub_wait, pub_urls, pub_containers, pub_i, pub_attempt,
                   published, pub_err>>
    /\ UNCHANGED pub_rest

\* The loop over container pub_i is over: the next container's loop starts,
\* or the code after the loops is reached.
AfterLoop ==
    IF pub_i < Len(pub_containers)
    THEN /\ pub_i' = pub_i + 1 /\ pub_attempt' = 0 /\ pub_pc' = "poll"
    ELSE /\ pub_pc' = "ready" /\ UNCHANGED <<pub_i, pub_attempt>>

Polled(code) ==
    [pub_containers EXCEPT ![pub_i] = [polls |-> @.polls + 1, reported |-> code]]

\* The attempt counter tested one too far.
PubPollPendingOneMore ==
    /\ pub_pc = "poll"
    /\ pub_attempt <= max_attempts(pub_kind)
    /\ \E code \in PendingCodes : pub_containers' = Polled(code)
    /\ pub_attempt' = pub_attempt + 1
    /\ UNCHANGED <<pub_pc, pub_kind, pub_wait, pub_urls, pub_i, published, pub_err>>
    /\ UNCHANGED pub_rest

\* Lines 691-696, 741-746, 796-801: one iteration whose poll answers neither
\* FINISHED nor ERROR; the loop sleeps and goes on.
PubPollPending ==
    /\ pub_pc = "poll"
    /\ pub_attempt < max_attempts(pub_kind)
    /\ \E code \in PendingCodes : pub_containers' = Polled(code)
    /\ pub_attempt' = pub_attempt + 1
    /\ UNCHANGED <<pub_pc, pub_kind, pub_wait, pub_urls, pub_i, published, pub_err>>
    /\ UNCHANGED pub_rest

\* Lines 692-693, 742-743, 797-798: the poll answers FINISHED, break.
PubPollFinished ==
    /\ pub_pc = "poll"
    /\ pub_attempt < max_attempts(pub_kind)
    /\ pub_containers' = Polled("FINISHED")
    /\ AfterLoop
    /\ UNCHANGED <<pub_kind, pub_wait, pub_urls, published, pub_err>>
    /\ UNCHANGED pub_rest

\* Lines 694-695, 744-745, 799-800: the poll answers ERROR, an Exception is raised.
PubPollError ==
    /\ pub_pc = "poll"
    /\ pub_attempt < max_attempts(pub_kind)
    /\ pub_containers' = Polled("ERROR")
    /\ pub_err' = "Exception"
    /\ pub_pc' = "raised"
    /\ UNCHANGED <<pub_kind, pub_wait, pub_urls, pub_i, pub_attempt, published>>
    /\ UNCHANGED pub_rest

\* range(max_attempts) is used up: the for loop ends without a break and
\* without an else branch.
PubPollsUsedUp ==
    /\ pub_pc = "poll"
    /\ pub_attempt = max_attempts(pub_kind)
    /\ AfterLoop
    /\ UNCHANGED <<pub_kind, pub_wait, pub_urls, pub_containers, published, pub_err>>
    /\ UNCHANGED pub_rest

\* Lines 698-702, 748-752: publish_container(container_id).
PubPublish ==
    /\ pub_pc = "ready"
    /\ pub_kind # "carousel"
    /\ published' = [id |-> 1, reported |-> pub_containers[1].reported]
    /\ pub_pc' = "returned"
    /\ UNCHANGED <<pub_kind, pub_wait, pub_urls, pub_containers, pub_i, pub_attempt, pub_err>>
    /\ UNCHANGED pub_rest

\* Lines 803-809: the carousel container is created from the children.
PubCreateCarousel ==
    /\ pub_pc = "ready"
    /\ pub_kind = "carousel"
    /\ pub_containers' = Append(pub_containers, Container)
    /\ pub_pc' = "publish"
    /\ UNCHANGED <<pub_kind, pub_wait, pub_urls, pub_i, pub_attempt, published, pub_err>>
    /\ UNCHANGED pub_rest

\* Lines 811-816: publish_container(carousel_id).
PubPublishCarousel ==
    /\ pub_pc = "publish"
    /\ published' = [id |-> Len(pub_containers),
                     reported |-> pub_containers[Len(pub_containers)].reported]
    /\ pub_pc' = "returned"
    /\ UNCHANGED <<pub_kind, pub_wait, pub_urls, pub_containers, pub_i, pub_attempt, pub_err>>
    /\ UNCHANGED pub_rest

NextPublish ==
    \/ PubCarouselRefused
    \/ PubAccepted
    \/ PubCreateContainer
    \/ PubRequestFails
    \/ PubWait
    \/ PubNoWait
    \/ PubPollPending
    \/ PubPollFinished
    \/ PubPollError
    \/ PubPollsUsedUp
    \/ PubPublish
    \/ PubCreateCarousel
    \/ PubPublishCarousel

InitPublish == PublishInit /\ SelIdle /\ EdIdle /\ ExecIdle /\ ExpIdle /\ JobIdle /\ CntIdle /\ WsIdle /\ HdIdle /\ SchIdle

SpecPublish == InitPublish /\ [][NextPublish]_vars

\* Every request is made with a timeout and asyncio.sleep returns: a call
\* that can take a step takes one.
SpecPublishFair == SpecPublish /\ WF_vars(NextPublish)

(***************************************************************************)
(* Claims about publishing.                                                *)
(***************************************************************************)
PubLeft == pub_pc \in {"returned", "raised"}

\* C25: with wait_for_completion=True, publish_container is called for a
\* container only after a status poll reported that container FINISHED.
C25_PublishedOnlyWhenFinished ==
    (pub_wait /\ published # NoPublish) => published.reported = "FINISHED"

WithinLimit ==
    \A c \in 1..Len(pub_containers) : pub_containers[c].polls <= max_attempts(pub_kind)

\* C26: a publish call polls a container at most max_attempts times (30 for
\* a photo and for a carousel item, 60 for a reel) and always ends by
\* returning or raising, even when no poll ever answers FINISHED.
C26_PollingBoundedAndEnds == []WithinLimit /\ <>PubLeft

\* A loop was used up on a container that never finished, and the call ended.
C26_Witness ==
    /\ PubLeft
    /\ \E c \in 1..Len(pub_containers) :
          /\ pub_containers[c].polls = max_attempts(pub_kind)
          /\ pub_containers[c].reported = "IN_PROGRESS"

(***************************************************************************)
(* One scheduled post: the periodic process_pending_posts                  *)
(* (scheduling_tasks.py 126-180, every 5 minutes by celery_app.py 65-68),  *)
(* the publish_scheduled_post tasks it queues (scheduling_tasks.py 16-123) *)
(* run by the workers, and cancel_scheduled_post (api/schedule.py 76-99).  *)
(* Each database read, commit and platform call is one step.               *)
(***************************************************************************)
MaxTicks == 2      \* process_pending_posts runs

Workers == {1, 2}

\* ScheduleStatus, models.py 240-246.
SCHEDULED == "scheduled"

PUBLISHING == "publishing"

PUBLISHED == "published"

FAILED == "failed"

CANCELLED == "cancelled"

ScheduleInit ==
    /\ sch_status = SCHEDULED
    /\ sch_due = FALSE
    /\ sch_active \in BOOLEAN
    /\ sch_queue = 0
    /\ sch_worker = [w \in Workers |-> "free"]
    /\ sch_ticks = 0
    /\ sch_publishes = 0
    /\ sch_cancel = [pc |-> "none", publishes |-> 0]

\* The scheduled time is reached.
SchDue ==
    /\ ~sch_due
    /\ sch_due' = TRUE
    /\ UNCHANGED <<sch_status, sch_active, sch_queue, sch_worker, sch_ticks, sch_publishes,
                   sch_cancel>>
    /\ UNCHANGED sch_rest

\* process_pending_posts, lines 142-150: no post is SCHEDULED and due.
TickNothing ==
    /\ sch_ticks < MaxTicks
    /\ ~(sch_status = SCHEDULED /\ sch_due)
    /\ sch_ticks' = sch_ticks + 1
    /\ UNCHANGED <<sch_status, sch_due, sch_active, sch_queue, sch_worker, sch_publishes,
                   sch_cancel>>
    /\ UNCHANGED sch_rest

\* process_pending_posts, lines 142-167: the post is SCHEDULED and due, a
\* publish_scheduled_post task is queued for it; its status is left as it is.
TickQueues ==
    /\ sch_ticks < MaxTicks
    /\ sch_status = SCHEDULED /\ sch_due
    /\ sch_queue' = sch_queue + 1
    /\ sch_ticks' = sch_ticks + 1
    /\ UNCHANGED <<sch_status, sch_due, sch_active, sch_worker, sch_publishes, sch_cancel>>
    /\ UNCHANGED sch_rest

\* process_pending_posts, lines 158-165: queueing raises, the post is marked FAILED.
TickQueueFails ==
    /\ sch_ticks < MaxTicks
    /\ sch_status = SCHEDULED /\ sch_due
    /\ sch_status' = FAILED
    /\ sch_ticks' = sch_ticks + 1
    /\ UNCHANGED <<sch_due, sch_active, sch_queue, sch_worker, sch_publishes, sch_cancel>>
    /\ UNCHANGED sch_rest

\* A worker takes a queued publish_scheduled_post task.
WorkerTakes ==
    \E w \in Workers :
        /\ sch_worker[w] = "free"
        /\ sch_queue > 0
        /\ sch_queue' = sch_queue - 1
        /\ sch_worker' = [sch_worker EXCEPT ![w] = "query"]
        /\ UNCHANGED <<sch_status, sch_due, sch_active, sch_ticks, sch_publishes, sch_cancel>>
        /\ UNCHANGED sch_rest

\* Lines 32-41: the post is read, its status is not SCHEDULED, the task returns.
WorkerSkips ==
    \E w \in Workers :
        /\ sch_worker[w] = "query"
        /\ sch_status # SCHEDULED
        /\ sch_worker' = [sch_worker EXCEPT ![w] = "free"]
        /\ UNCHANGED <<sch_status, sch_due, sch_active, sch_queue, sch_ticks, sch_publishes,
                       sch_cancel>>
        /\ UNCHANGED sch_rest

\* Lines 32-46: the post is read, its status is SCHEDULED.
WorkerSeesScheduled ==
    \E w \in Workers :
        /\ sch_worker[w] = "query"
        /\ sch_status = SCHEDULED
        /\ sch_worker' = [sch_worker EXCEPT ![w] = "checked"]
        /\ UNCHANGED <<sch_status, sch_due, sch_active, sch_queue, sch_ticks, sch_publishes,
                       sch_cancel>>
        /\ UNCHANGED sch_rest

\* Lines 48-52: no active account, FAILED is committed.
WorkerNoAccount ==
    \E w \in Workers :
        /\ sch_worker[w] = "checked"
        /\ ~sch_active
        /\ sch_status' = FAILED
        /\ sch_worker' = [sch_worker EXCEPT ![w] = "free"]
        /\ UNCHANGED <<sch_due, sch_active, sch_queue, sch_ticks, sch_publishes, sch_cancel>>
        /\ UNCHANGED sch_rest

\* Lines 54-56: PUBLISHING is committed, whatever the row holds by now.
WorkerMarksPublishing ==
    \E w \in Workers :
        /\ sch_worker[w] = "checked"
        /\ sch_active
        /\ sch_status' = PUBLISHING
        /\ sch_worker' = [sch_worker EXCEPT ![w] = "publishing"]
        /\ UNCHANGED <<sch_due, sch_active, sch_queue, sch_ticks, sch_publishes, sch_cancel>>
        /\ UNCHANGED sch_rest

\* Lines 65-100: publish_photo, publish_reel or publish_carousel returns.
WorkerPublishes ==
    \E w \in Workers :
        /\ sch_worker[w] = "publishing"
        /\ sch_publishes' = sch_publishes + 1
        /\ sch_worker' = [sch_worker EXCEPT ![w] = "posted"]
        /\ UNCHANGED <<sch_status, sch_due, sch_active, sch_queue, sch_ticks, sch_cancel>>
        /\ UNCHANGED sch_rest

\* Lines 102-113: PUBLISHED is committed.
WorkerMarksPublished ==
    \E w \in Workers :
        /\ sch_worker[w] = "posted"
        /\ sch_status' = PUBLISHED
        /\ sch_worker' = [sch_worker EXCEPT ![w] = "free"]
        /\ UNCHANGED <<sch_due, sch_active, sch_queue, sch_ticks, sch_publishes, sch_cancel>>
        /\ UNCHANGED sch_rest

\* Lines 115-122: the publish call raised, FAILED is committed.
WorkerPublishFails ==
    \E w \in Workers :
        /\ sch_worker[w] = "publishing"
        /\ sch_status' = FAILED
        /\ sch_worker' = [sch_worker EXCEPT ![w] = "free"]
        /\ UNCHANGED <<sch_due, sch_active, sch_queue, sch_ticks, sch_publishes, sch_cancel>>
        /\ UNCHANGED sch_rest

\* cancel_scheduled_post, api/schedule.py 83-95: the post is read and is PUBLISHED.
CancelRefused ==
    /\ sch_cancel.pc = "none"
    /\ sch_status = PUBLISHED
    /\ sch_cancel' = [sch_cancel EXCEPT !.pc = "refused"]
    /\ UNCHANGED <<sch_status, sch_due, sch_active, sch_queue, sch_worker, sch_ticks,
                   sch_publishes>>
    /\ UNCHANGED sch_rest

\* api/schedule.py 83-95: the post is read and is not PUBLISHED.
CancelChecks ==
    /\ sch_cancel.pc = "none"
    /\ sch_status # PUBLISHED
    /\ sch_cancel' = [sch_cancel EXCEPT !.pc = "checked"]
    /\ UNCHANGED <<sch_status, sch_due, sch_active, sch_queue, sch_worker, sch_ticks,
                   sch_publishes>>
    /\ UNCHANGED sch_rest

\* api/schedule.py 96-99: CANCELLED is committed, the request succeeds.
CancelCommits ==
    /\ sch_cancel.pc = "checked"
    /\ sch_status' = CANCELLED
    /\ sch_cancel' = [pc |-> "done", publishes |-> sch_publishes]
    /\ UNCHANGED <<sch_due, sch_active, sch_queue, sch_worker, sch_ticks, sch_publishes>>
    /\ UNCHANGED sch_rest

NextSchedule ==
    \/ SchDue
    \/ TickNothing
    \/ TickQueues
    \/ TickQueueFails
    \/ WorkerTakes
    \/ WorkerSkips
    \/ WorkerSeesScheduled
    \/ WorkerNoAccount
    \/ WorkerMarksPublishing
    \/ WorkerPublishes
    \/ WorkerMarksPublished
    \/ WorkerPublishFails
    \/ CancelRefused
    \/ CancelChecks
    \/ CancelCommits

InitSchedule == ScheduleInit /\ SelIdle /\ EdIdle /\ ExecIdle /\ ExpIdle /\ JobIdle /\ CntIdle /\ WsIdle /\ HdIdle /\ PubIdle

SpecSchedule == InitSchedule /\ [][NextSchedule]_vars

(***************************************************************************)
(* Claims about scheduled posts.                                           *)
(***************************************************************************)
\* C28: a scheduled post is published to the platform at most once,
\* whatever the interleaving of ticks and publish tasks.
C28_PublishedAtMostOnce == sch_publishes <= 1

\* C29: once cancel_scheduled_post has succeeded, the post is not published
\* afterwards and its status stays CANCELLED.
C29_CancelledIsTerminal ==
    sch_cancel.pc = "done" =>
        (sch_status = CANCELLED /\ sch_publishes = sch_cancel.publishes)

====
